---- MODULE Spec2Model ----
(***************************************************************************)
(* Model of the orchestration engine (orchestrator.py), the plan extractor *)
(* (consultant_agent.py) and the two external roles as seen at their       *)
(* interface (consultant_agent.py, executor_agent.py).                     *)
(*                                                                         *)
(* A text is a sequence of lines.  A line is a record: pad says whether    *)
(* the line carries leading/trailing blanks, kind is what the trimmed line *)
(* is, val is the JSON value a json/member line spells.                    *)
(* Python's asyncio runs one coroutine at a time, so each action is the    *)
(* code between two awaits (or yields) of one coroutine.                   *)
(***************************************************************************)
EXTENDS Integers, Sequences, FiniteSets, TLC

(***************************************************************************)
(* Bounds.                                                                 *)
(***************************************************************************)
MaxSessions == 2   \* context objects alive at one time
MaxRequests == 2   \* calls made over a run by a single caller
MaxConcurrentRequests == 2   \* calls made over a run by two callers
MaxFairRequests == 2   \* calls made over a run under fairness
MaxChunks == 1     \* fragments of one execution-role stream
MaxTools == 1      \* capabilities one provider lists

Procs == {"p1", "p2"}          \* callers that may have a request in flight
Inputs == {"u1", "u2"}         \* user inputs
InputOf == [p \in Procs |-> IF p = "p1" THEN "u1" ELSE "u2"]
Errors == {"e1"}               \* str(e) of a raised exception
Contents == {"r1"}             \* message contents the execution role returns

SessionIds == 1..MaxSessions   \* the uuid4 values
UnknownId == 0                 \* a session id create_conversation never returned
NoId == -1                     \* session_id=None

(***************************************************************************)
(* JSON values.  A field value is a string, a number or a list; a list     *)
(* item is a string, a number or an object with optional "description"     *)
(* and "action" keys (Absent marks a missing key).                         *)
(***************************************************************************)
Absent == "<absent>"
StrItem(s) == [t |-> "str", s |-> s, description |-> Absent, action |-> Absent]
NumItem == [t |-> "num", s |-> "", description |-> Absent, action |-> Absent]
ObjItem(d, a) == [t |-> "obj", s |-> "", description |-> d, action |-> a]
StrV(s) == [t |-> "str", s |-> s, items |-> <<>>]
NumV == [t |-> "num", s |-> "", items |-> <<>>]
ListV(items) == [t |-> "list", s |-> "", items |-> items]

PlanFields == {"task_description", "required_tools", "execution_steps", "expected_outcome"}
ObjJ(members) == [t |-> "obj", members |-> members]
ListJ == [t |-> "list", members |-> <<>>]
NumJ == [t |-> "num", members |-> <<>>]
NoJ == [t |-> "none", members |-> <<>>]

(***************************************************************************)
(* Lines and texts.                                                        *)
(***************************************************************************)
Line(kind, val) == [pad |-> FALSE, kind |-> kind, val |-> val]
Padded(l) == [l EXCEPT !.pad = TRUE]
Prose == Line("prose", NoJ)            \* any line that is neither fence nor JSON
Blank == Line("blank", NoJ)            \* ""
Opener == Line("fence_json", NoJ)      \* ```json
OpenerTail == Line("fence_json_tail", NoJ)   \* ```json followed by more text
Closer == Line("fence", NoJ)           \* ```
OtherFence == Line("fence_other", NoJ) \* ``` followed by text other than json
BraceOpen == Line("brace_open", NoJ)   \* {
BraceClose == Line("brace_close", NoJ) \* }
Json(v) == Line("json", v)             \* a complete JSON value on one line
Member(k, fv) == Line("member", ObjJ([x \in {k} |-> fv]))  \* "k": fv,
DiagLine(who, e) == Line("diag", ObjJ([x \in {who} |-> StrV(e)]))

\* str.strip()
strip(l) == [l EXCEPT !.pad = FALSE]
\* line.strip().startswith('```json')
StartsWithJsonFence(l) == strip(l).kind \in {"fence_json", "fence_json_tail"}
\* line.strip() == '```'
IsClosingFence(l) == strip(l) = Closer

None == [isNone |-> TRUE]

(***************************************************************************)
(* json.loads on '\n'.join(json_lines): blank lines and padding are        *)
(* whitespace; the text decodes when it is one complete value, or an       *)
(* object spelled as { members } over several lines (a repeated key keeps  *)
(* its last value); anything else raises.                                  *)
(***************************************************************************)
RECURSIVE MergeMembers(_)
MergeMembers(ls) ==
    IF ls = <<>> THEN << >>
    ELSE LET rest == MergeMembers(SubSeq(ls, 1, Len(ls) - 1))
             last == ls[Len(ls)].val.members
         IN  [k \in (DOMAIN rest) \cup (DOMAIN last) |->
                 IF k \in DOMAIN last THEN last[k] ELSE rest[k]]

json_loads(ls) ==
    LET body == SelectSeq(ls, LAMBDA l : l.kind # "blank")
        n == Len(body)
    IN  IF n = 1 /\ body[1].kind = "json" THEN body[1].val
        ELSE IF /\ n >= 2
                /\ body[1].kind = "brace_open"
                /\ body[n].kind = "brace_close"
                /\ \A i \in 2..(n - 1) : body[i].kind = "member"
             THEN ObjJ(MergeMembers(SubSeq(body, 2, n - 1)))
        ELSE None

\* plan_data.get(key) without a default
Get_no_default(members, key, default) ==
    IF key \in DOMAIN members THEN members[key] ELSE [t |-> "none", s |-> "", items |-> <<>>]

\* plan_data.get(key, default)
Get(members, key, default) == IF key \in DOMAIN members THEN members[key] ELSE default

\* The scan loop of extract_execution_plan: json_lines after the loop.
RECURSIVE ScanLines(_, _, _)
ScanLines(lines, json_started, json_lines) ==
    IF lines = <<>> THEN json_lines
    ELSE LET line == Head(lines) IN
         IF StartsWithJsonFence(line) THEN ScanLines(Tail(lines), TRUE, json_lines)
         ELSE IF IsClosingFence(line) /\ json_started THEN json_lines
         ELSE IF json_started THEN ScanLines(Tail(lines), TRUE, Append(json_lines, line))
         ELSE ScanLines(Tail(lines), json_started, json_lines)

TaskPlan(td, rt, es, eo) ==
    [task_description |-> td, required_tools |-> rt,
     execution_steps |-> es, expected_outcome |-> eo]

\* an exception on its way out of a function
Raised(e) == [raised |-> e]

\* The try block of extract_execution_plan (lines 236-258): a TaskPlan,
\* nothing (json_lines empty, so the function goes on to return None), or
\* the exception of json.loads or of .get on a value that is no dict.
extract_try(response) ==
    LET json_lines == ScanLines(response, FALSE, <<>>) IN
    IF json_lines = <<>> THEN None
    ELSE LET plan_data == json_loads(json_lines) IN
         IF plan_data = None THEN Raised("JSONDecodeError")
         ELSE IF plan_data.t # "obj" THEN Raised("AttributeError")
         ELSE TaskPlan(Get(plan_data.members, "task_description", StrV("")),
                       Get(plan_data.members, "required_tools", ListV(<<>>)),
                       Get(plan_data.members, "execution_steps", ListV(<<>>)),
                       Get(plan_data.members, "expected_outcome", StrV("")))

\* an except clause that lets the exception through
extract_except_reraise(r) == r

\* except Exception (lines 259-260), then return None (line 262)
extract_except(r) == IF "raised" \in DOMAIN r THEN None ELSE r

\* ConsultantAgent.extract_execution_plan: a TaskPlan, or None
extract_execution_plan(response) == extract_except(extract_try(response))

(***************************************************************************)
(* The execution prompt (orchestrator.py 212-219 and 281-288).             *)
(***************************************************************************)
\* ', '.join(execution_plan.required_tools) raises TypeError
JoinRaises(rt) ==
    \/ rt.t = "num"
    \/ rt.t = "list" /\ \E i \in DOMAIN rt.items : rt.items[i].t # "str"

\* enumerate(execution_steps) or step.get raises (TypeError, AttributeError)
StepsRaise(es) ==
    \/ es.t = "num"
    \/ es.t = "str" /\ es.s # ""
    \/ es.t = "list" /\ \E i \in DOMAIN es.items : es.items[i].t # "obj"

\* step.get('action', step.get('description', ''))
StepText_action_first(step) ==
    IF step.action # Absent THEN step.action
    ELSE IF step.description # Absent THEN step.description
    ELSE ""

\* step.get('description', step.get('action', ''))
StepText(step) ==
    IF step.description # Absent THEN step.description
    ELSE IF step.action # Absent THEN step.action
    ELSE ""

NoPrompt == [task |-> StrV(""), steps |-> <<>>, outcome |-> StrV(""), form |-> "none"]

\* the f-string of process_user_request and execute_current_plan
ExecutionPrompt(plan) ==
    [task |-> plan.task_description,
     steps |-> [i \in DOMAIN plan.execution_steps.items |->
                   [n |-> i, text |-> StepText(plan.execution_steps.items[i])]],
     outcome |-> plan.expected_outcome,
     form |-> "steps"]

\* f"Ejecuta: {execution_plan.task_description}" of stream_execution
StreamPrompt(plan) ==
    [task |-> plan.task_description, steps |-> <<>>, outcome |-> StrV(""), form |-> "short"]

(***************************************************************************)
(* Values returned to the caller.                                          *)
(***************************************************************************)
NoText == <<>>
NoResult == [kind |-> "none", s |-> ""]
Ret(form, text, result, err) == [form |-> form, text |-> text, result |-> result, err |-> err]
NoRet == Ret("none", NoText, NoResult, "")
NotInitialized == Ret("not_initialized", NoText, NoResult, "")
SessionNotFound == Ret("session_not_found", NoText, NoResult, "")
Verbatim(text) == Ret("verbatim", text, NoResult, "")
Deferred(text) == Ret("deferred", text, NoResult, "")
Final(text, result) == Ret("final", text, result, "")
ErrorMsg(e) == Ret("error", NoText, NoResult, e)
NoPlanAvailable == Ret("no_plan", NoText, NoResult, "")
PlanExecuted(result) == Ret("plan_executed", NoText, result, "")
PlanError(e) == Ret("plan_error", NoText, NoResult, e)
Propagated(e) == Ret("raised", NoText, NoResult, e)

(***************************************************************************)
(* The two external roles.  An outcome is what the completion service      *)
(* does; process_request and execute_single_task turn it into a string.    *)
(***************************************************************************)
GoodMembers ==
    [k \in PlanFields |->
        CASE k = "task_description" -> StrV("t1")
          [] k = "required_tools" -> ListV(<<StrItem("ls")>>)
          [] k = "execution_steps" -> ListV(<<ObjItem("d1", "a1")>>)
          [] k = "expected_outcome" -> StrV("o1")]
PartialMembers ==
    [k \in {"task_description", "execution_steps"} |->
        IF k = "task_description" THEN StrV("t2")
        ELSE ListV(<<ObjItem(Absent, "a1"), ObjItem("d2", Absent)>>)]
StrStepsMembers == [GoodMembers EXCEPT !["execution_steps"] = ListV(<<StrItem("list dir")>>)]
BadToolsMembers == [GoodMembers EXCEPT !["required_tools"] = NumV]

PlanText(members) == <<Prose, Opener, Json(ObjJ(members)), Padded(Closer)>>
NoPlanText == <<Prose>>
Responses ==
    {NoPlanText, PlanText(GoodMembers),
     PlanText(StrStepsMembers), PlanText(BadToolsMembers)}

\* graph.ainvoke returns a message, or raises; create_agent_graph may raise
\* before the try of process_request.
AdvisoryOutcomes ==
    [kind : {"ok"}, text : Responses, e : {""}]
      \cup [kind : {"ainvoke_raises", "raises"}, text : {NoText}, e : Errors]

\* ConsultantAgent.process_request, given that it returns
process_request(outcome) ==
    IF outcome.kind = "ok" THEN outcome.text
    ELSE <<DiagLine("consultant", outcome.e)>>

ExecOutcomes == [ok : {TRUE}, s : Contents] \cup [ok : {FALSE}, s : Errors]

\* ExecutorAgent.execute_single_task: every exception becomes a string
execute_single_task(outcome) ==
    IF outcome.ok THEN [kind |-> "content", s |-> outcome.s]
    ELSE [kind |-> "task_error", s |-> outcome.s]

\* fragments of ExecutorAgent.stream_execution
ToolFragment == [kind |-> "tool", s |-> "ls"]
ResultFragment == [kind |-> "tool_result", s |-> "r1"]
ContentFragment == [kind |-> "content", s |-> "r1"]
StreamErrorFragment(e) == [kind |-> "stream_error", s |-> e]
RoleFragments == {ToolFragment, ContentFragment}
\* fragments of MCPOrchestrator.stream_execution
NotInitializedFragment == [kind |-> "not_initialized", s |-> ""]
NotFoundFragment == [kind |-> "session_not_found", s |-> ""]
AnalyzingFragment == [kind |-> "analyzing", s |-> ""]
\* f"**Análisis:**\n{consultant_response}\n\n": the whole advisory text
AnalysisFragment(text) == [kind |-> "analysis", s |-> "", text |-> text]
RunningPlanFragment(plan) == [kind |-> "running_plan", s |-> plan.task_description.s]
ErrorFragment(e) == [kind |-> "error", s |-> e]

(***************************************************************************)
(* State.                                                                  *)
(*   conversations  keys of self.conversations; the value stored under a   *)
(*                  key is the context object of the same id               *)
(*   contexts       the live ConversationContext objects, by id: those in  *)
(*                  the store and those a suspended coroutine still holds  *)
(*                  after close() dropped their keys                       *)
(*   pc, req, ret   position, locals and returned value of each caller; a  *)
(*                  call that has returned stays at "done" with its values *)
(*                  until its caller takes them, which is the very next    *)
(*                  step (nothing else runs between a return and the       *)
(*                  caller's resumption that the call could observe)       *)
(*   issued         number of calls made so far                            *)
(*   doneViaExec    per context, the calls that ran the execution phase to *)
(*                  its end (history variable)                             *)
(*   appended       per context, how many records were appended to its     *)
(*                  history and which one last (history variable)          *)
(* uuid4() is modelled as an id that no live context carries.              *)
(* The timestamp of a history record is left out.                          *)
(***************************************************************************)
VARIABLES is_initialized, conversations, contexts,
          pc, req, ret, issued, doneViaExec, appended

(***************************************************************************)
(*   mcp_client      self.mcp_client: None, or the MCPClient with its      *)
(*                   sessions, tools by server, all_tools and whether its  *)
(*                   exit stack has been closed                            *)
(*   executor_agent  self.executor_agent: None, or the ExecutorAgent with  *)
(*                   the tool list it was given and its tools_map          *)
(*   connecting      the initialize() call in progress: the configuration, *)
(*                   the servers still to connect, and the attempts made   *)
(*                   with what each provider did (history)                 *)
(***************************************************************************)
VARIABLES mcp_client, executor_agent, connecting

regVars == <<mcp_client, executor_agent, connecting>>

(***************************************************************************)
(*   applied         one application of a function of the program that     *)
(*                   keeps no state of its own: its name, its argument,    *)
(*                   and its result once it has run                        *)
(*   bridge          the tool invocations made through the MCPTool objects *)
(*                   of the client (each awaiting session.call_tool or     *)
(*                   returned, with the value _arun returned), and how     *)
(*                   many close() calls were made in a row (history)       *)
(***************************************************************************)
VARIABLES applied, bridge

unitVars == <<applied, bridge>>

vars == <<is_initialized, conversations, contexts,
          pc, req, ret, issued, doneViaExec, appended,
          mcp_client, executor_agent, connecting, applied, bridge>>

\* ConversationContext(...) and __post_init__.  history_list names the list
\* object that holds the history: __post_init__ makes a new list for each
\* instance, so it is the instance's own.  A thread id is the pair of its
\* prefix and the session id, standing for f"consultant_{session_id}".
NewContext_one_thread(session_id) ==
    [session_id |-> session_id,
     consultant_thread_id |-> <<"consultant", session_id>>,
     executor_thread_id |-> <<"consultant", session_id>>,
     history_list |-> session_id,
     current_plan |-> None,
     execution_history |-> <<>>]

NewContext_shared_list(session_id) ==
    [session_id |-> session_id,
     consultant_thread_id |-> <<"consultant", session_id>>,
     executor_thread_id |-> <<"executor", session_id>>,
     history_list |-> UnknownId,
     current_plan |-> None,
     execution_history |-> <<>>]

NewContext(session_id) ==
    [session_id |-> session_id,
     consultant_thread_id |-> <<"consultant", session_id>>,
     executor_thread_id |-> <<"executor", session_id>>,
     history_list |-> session_id,
     current_plan |-> None,
     execution_history |-> <<>>]

\* the history variable of a context that has appended nothing
NoneAppended == [n |-> 0, last |-> None]

\* no initialize() call in progress
NotConnecting ==
    [pc |-> "idle", servers_config |-> <<>>, pending |-> <<>>, attempted |-> <<>>]

\* MCPClient(): nothing connected
MCPClient == [sessions |-> {}, tools |-> << >>, all_tools |-> <<>>, closed |-> FALSE]

\* a close() that undoes what the close() before it did
close_client_reopen(client) ==
    IF client = None THEN None ELSE [client EXCEPT !.closed = ~@]

\* MCPClient.close(): the exit stack is closed; the registries stay
close_client(client) ==
    IF client = None THEN None ELSE [client EXCEPT !.closed = TRUE]

\* MCPClient.get_all_tools()
get_all_tools(client) == client.all_tools

\* {tool.name: tool for tool in mcp_tools}: a later tool replaces an earlier
\* one of the same name
RECURSIVE tools_map_first(_)
tools_map_first(mcp_tools) ==
    IF mcp_tools = <<>> THEN << >>
    ELSE LET tool == Head(mcp_tools)
         IN  (tool.name :> tool) @@ tools_map_first(Tail(mcp_tools))

RECURSIVE tools_map(_)
tools_map(mcp_tools) ==
    IF mcp_tools = <<>> THEN << >>
    ELSE LET tool == mcp_tools[Len(mcp_tools)]
         IN  (tool.name :> tool) @@ tools_map(SubSeq(mcp_tools, 1, Len(mcp_tools) - 1))

\* ExecutorAgent(mcp_tools=...)
ExecutorAgent(mcp_tools) == [mcp_tools |-> mcp_tools, tools_map |-> tools_map(mcp_tools)]

IdleReq ==
    [kind |-> "none", session_arg |-> NoId, session_id |-> NoId, context |-> NoId,
     user_input |-> "", auto_execute |-> FALSE,
     consultant_response |-> NoText, execution_plan |-> None,
     advisory_calls |-> <<>>, exec_calls |-> <<>>, role_out |-> <<>>, out |-> <<>>,
     history_at_start |-> <<>>]

\* no function application under study
NotApplied == [f |-> "none", arg |-> <<>>, result |-> None, done |-> FALSE]

\* no tool invoked, no close() made
IdleBridge == [calls |-> <<>>, closes |-> 0]

\* MCPOrchestrator(api_key): nothing initialized, no conversation
EngineInit ==
    /\ is_initialized = FALSE
    /\ conversations = {}
    /\ contexts = << >>
    /\ pc = [p \in Procs |-> "idle"]
    /\ req = [p \in Procs |-> IdleReq]
    /\ ret = [p \in Procs |-> NoRet]
    /\ issued = 0
    /\ doneViaExec = << >>
    /\ appended = << >>
    /\ mcp_client = None
    /\ executor_agent = None
    /\ connecting = NotConnecting

Init ==
    /\ EngineInit
    /\ applied = NotApplied
    /\ bridge = IdleBridge

InFlight(q) == pc[q] \notin {"idle", "done", "abandoned"}

Restrict(f, S) == [x \in (DOMAIN f) \cap S |-> f[x]]

\* the contexts other callers' suspended coroutines refer to
HeldBy(ps) == {req[q].context : q \in {q \in ps : InFlight(q)}}

\* str(uuid.uuid4())
FreeIds == SessionIds \ DOMAIN contexts
uuid4 == CHOOSE i \in FreeIds : \A j \in FreeIds : i <= j

\* self.conversations.get(session_id): the context stored under the key
conversations_get_other(convs, session_id) ==
    IF session_id \in convs
    THEN CHOOSE c \in convs : \A d \in convs : d <= c
    ELSE NoId

conversations_get(convs, session_id) ==
    IF session_id \in convs THEN session_id ELSE NoId

\* lines 182-191 (322-332 in stream_execution): what becomes of the call
Admit_create(initialized, convs, session_id) ==
    IF ~initialized THEN "not_initialized"
    ELSE IF session_id = NoId \/ conversations_get(convs, session_id) = NoId THEN "create"
    ELSE "found"

\* a check that makes the session of a call without id before looking at is_initialized
Admit_session_first(initialized, convs, session_id) ==
    IF session_id = NoId THEN "create"
    ELSE IF ~initialized THEN "not_initialized"
    ELSE IF conversations_get(convs, session_id) = NoId THEN "not_found"
    ELSE "found"

Admit(initialized, convs, session_id) ==
    IF ~initialized THEN "not_initialized"
    ELSE IF session_id = NoId THEN "create"
    ELSE IF conversations_get(convs, session_id) = NoId THEN "not_found"
    ELSE "found"

\* context.current_plan = execution_plan
SetPlan_forgot(c, plan) == c

SetPlan(c, plan) == [c EXCEPT !.current_plan = plan]

\* the record of lines 228-234
ExecutionRecord(user_input, consultant_response, execution_plan, execution_result) ==
    [user_input |-> user_input, consultant_response |-> consultant_response,
     execution_plan |-> execution_plan, execution_result |-> execution_result]

\* context.execution_history.append(record)
AppendRecord_front(c, record) ==
    [c EXCEPT !.execution_history = <<record>> \o @]

AppendRecord(c, record) ==
    [c EXCEPT !.execution_history = Append(@, record)]

\* the append as seen by every live context: the list object grows, and with
\* it the history of each context whose execution_history is that object
HistoryAppend(ctxs, c, record) ==
    [d \in DOMAIN ctxs |->
        IF ctxs[d].history_list = ctxs[c].history_list
        THEN AppendRecord(ctxs[d], record)
        ELSE ctxs[d]]

\* except Exception of process_user_request (260-263)
EngineBoundary_propagate(e) == Propagated(e)

EngineBoundary(e) == ErrorMsg(e)

\* except Exception of stream_execution (359-360): the last fragment
StreamBoundary(e) == ErrorFragment(e)

\* lines 204-258 up to the call of the execution role, for the plan found
PlanCheckCore(c, consultant_response, auto_execute, plan) ==
    IF plan # None /\ auto_execute
    THEN IF JoinRaises(plan.required_tools)
         THEN [context |-> c, next |-> "done", plan |-> plan, prompt |-> NoPrompt,
               ret |-> EngineBoundary("TypeError")]
         ELSE IF StepsRaise(plan.execution_steps)
         THEN [context |-> SetPlan(c, plan), next |-> "done", plan |-> plan,
               prompt |-> NoPrompt, ret |-> EngineBoundary("AttributeError")]
         ELSE [context |-> SetPlan(c, plan), next |-> "executing", plan |-> plan,
               prompt |-> ExecutionPrompt(plan), ret |-> NoRet]
    ELSE IF plan # None
    THEN [context |-> SetPlan(c, plan), next |-> "done", plan |-> plan,
          prompt |-> NoPrompt, ret |-> Deferred(consultant_response)]
    ELSE [context |-> c, next |-> "done", plan |-> plan,
          prompt |-> NoPrompt, ret |-> Verbatim(consultant_response)]

\* lines 202-258: extraction, then the branch
ProcessPlanCheck_stale(c, consultant_response, auto_execute) ==
    PlanCheckCore(c, consultant_response, auto_execute,
                  IF extract_execution_plan(consultant_response) = None
                  THEN c.current_plan
                  ELSE extract_execution_plan(consultant_response))

\* a plan check that drops the stored plan before looking for a new one
ProcessPlanCheck_clear(c, consultant_response, auto_execute) ==
    PlanCheckCore(SetPlan(c, None), consultant_response, auto_execute,
                  extract_execution_plan(consultant_response))

ProcessPlanCheck(c, consultant_response, auto_execute) ==
    PlanCheckCore(c, consultant_response, auto_execute,
                  extract_execution_plan(consultant_response))

(***************************************************************************)
(* Engine operations that do not suspend.                                  *)
(***************************************************************************)
\* initialize({}): no server configured, so nothing to connect; a new
\* client, the agents built on its empty tool list, is_initialized set
Initialize ==
    /\ connecting.pc = "idle"
    /\ is_initialized' = TRUE
    /\ mcp_client' = MCPClient
    /\ executor_agent' = ExecutorAgent(get_all_tools(MCPClient))
    /\ UNCHANGED <<conversations, contexts, pc, req, ret, issued, doneViaExec, appended,
                   connecting>>

\* create_conversation()
CreateConversation_replace ==
    /\ FreeIds # {}
    /\ conversations' = {uuid4}
    /\ contexts' = contexts @@ (uuid4 :> NewContext(uuid4))
    /\ doneViaExec' = doneViaExec @@ (uuid4 :> 0)
    /\ appended' = appended @@ (uuid4 :> NoneAppended)
    /\ UNCHANGED <<is_initialized, pc, req, ret, issued>>

CreateConversation ==
    /\ FreeIds # {}
    /\ conversations' = conversations \cup {uuid4}
    /\ contexts' = contexts @@ (uuid4 :> NewContext(uuid4))
    /\ doneViaExec' = doneViaExec @@ (uuid4 :> 0)
    /\ appended' = appended @@ (uuid4 :> NoneAppended)
    /\ UNCHANGED <<is_initialized, pc, req, ret, issued>>

\* close(): conversations.clear(), is_initialized = False
Close ==
    /\ connecting.pc = "idle"
    /\ mcp_client' = close_client(mcp_client)
    /\ UNCHANGED <<executor_agent, connecting>>
    /\ conversations' = {}
    /\ is_initialized' = FALSE
    /\ contexts' = Restrict(contexts, HeldBy(Procs))
    /\ doneViaExec' = Restrict(doneViaExec, HeldBy(Procs))
    /\ appended' = Restrict(appended, HeldBy(Procs))
    /\ UNCHANGED <<pc, req, ret, issued>>

\* the session ids a caller passes: one in the store, one that is not, or None
SessionArgs == conversations \cup {UnknownId, NoId}

\* What a rejected call hands back: a string, or the only fragment.
Rejection(kind, a) ==
    IF kind = "stream" THEN NoRet
    ELSE IF a = "not_initialized" THEN NotInitialized ELSE SessionNotFound

FirstFragment(kind, a) ==
    IF kind # "stream" THEN <<>>
    ELSE IF a = "not_initialized" THEN <<NotInitializedFragment>>
    ELSE IF a = "not_found" THEN <<NotFoundFragment>>
    ELSE <<AnalyzingFragment>>

\* The call of consultant_agent.process_request with the context's thread id.
\* history_at_start remembers, for a streaming request, the history its
\* session had when the request began (history variable).
Admitted_skip_advising(p, r, sid, c, a) ==
    /\ pc' = [pc EXCEPT ![p] = "executing"]
    /\ req' = [req EXCEPT ![p] = [r EXCEPT !.session_id = sid, !.context = c]]
    /\ ret' = [ret EXCEPT ![p] = NoRet]

Admitted(p, r, sid, c, a) ==
    /\ pc' = [pc EXCEPT ![p] = "advising"]
    /\ req' = [req EXCEPT ![p] =
                  [r EXCEPT !.session_id = sid, !.context = c,
                            !.out = FirstFragment(r.kind, a),
                            !.history_at_start =
                                IF r.kind = "stream" /\ c \in DOMAIN contexts
                                THEN contexts[c].execution_history
                                ELSE <<>>,
                            !.advisory_calls =
                                <<[thread |-> NewContext(c).consultant_thread_id,
                                   input |-> r.user_input]>>]]
    /\ ret' = [ret EXCEPT ![p] = NoRet]

\* The part of a call shared by process_user_request and stream_execution:
\* lines 182-191 / 322-332, up to the await of the advisory role.
Enter(p, kind, user_input, session_id, auto_execute) ==
    LET a == Admit(is_initialized, conversations, session_id)
        r == [IdleReq EXCEPT !.kind = kind, !.session_arg = session_id,
                             !.user_input = user_input, !.auto_execute = auto_execute]
    IN
    /\ pc[p] = "idle"
    /\ issued' = issued + 1
    /\ UNCHANGED is_initialized
    /\ \/ /\ a \in {"not_initialized", "not_found"}
          /\ pc' = [pc EXCEPT ![p] = "done"]
          /\ req' = [req EXCEPT ![p] = [r EXCEPT !.out = FirstFragment(kind, a)]]
          /\ ret' = [ret EXCEPT ![p] = Rejection(kind, a)]
          /\ UNCHANGED <<conversations, contexts, doneViaExec, appended>>
       \/ /\ a = "create"
          /\ FreeIds # {}
          /\ conversations' = conversations \cup {uuid4}
          /\ contexts' = contexts @@ (uuid4 :> NewContext(uuid4))
          /\ doneViaExec' = doneViaExec @@ (uuid4 :> 0)
          /\ appended' = appended @@ (uuid4 :> NoneAppended)
          /\ Admitted(p, r, uuid4, uuid4, a)
       \/ /\ a = "found"
          /\ UNCHANGED <<conversations, contexts, doneViaExec, appended>>
          /\ Admitted(p, r, session_id, conversations_get(conversations, session_id), a)

\* process_user_request(user_input, session_id, auto_execute), to its first await
StartProcess(p, inputs) ==
    \E u \in inputs, sid \in SessionArgs, auto \in BOOLEAN :
        Enter(p, "process", u, sid, auto)

\* stream_execution(user_input, session_id), to the await of the advisory role;
\* the analyzing marker has been handed to the consumer
StartStream(p) ==
    \E u \in Inputs, sid \in SessionArgs :
        Enter(p, "stream", u, sid, TRUE)

Finish(p, value) ==
    /\ pc' = [pc EXCEPT ![p] = "done"]
    /\ ret' = [ret EXCEPT ![p] = value]

\* process_user_request from the return of the advisory role (196) to the
\* await of the execution role (222) or to its return statement
AdvisoryReturn(p) ==
    /\ pc[p] = "advising"
    /\ req[p].kind = "process"
    /\ \E o \in AdvisoryOutcomes :
         IF o.kind = "raises"
         THEN /\ Finish(p, EngineBoundary(o.e))
              /\ UNCHANGED <<contexts, req>>
         ELSE LET resp == process_request(o)
                  c == contexts[req[p].context]
                  r == ProcessPlanCheck(c, resp, req[p].auto_execute)
              IN  /\ contexts' = [contexts EXCEPT ![req[p].context] = r.context]
                  /\ req' = [req EXCEPT ![p].consultant_response = resp,
                                        ![p].execution_plan = r.plan,
                                        ![p].exec_calls =
                                            IF r.next = "executing"
                                            THEN <<[thread |-> c.executor_thread_id,
                                                    prompt |-> r.prompt]>>
                                            ELSE <<>>]
                  /\ pc' = [pc EXCEPT ![p] = r.next]
                  /\ ret' = [ret EXCEPT ![p] = r.ret]
    /\ UNCHANGED <<is_initialized, conversations, issued, doneViaExec, appended>>

\* a record written from the plan the session stores when the role returns
ExecReturn_stored_plan(p) ==
    /\ pc[p] = "executing"
    /\ req[p].kind = "process"
    /\ \E o \in ExecOutcomes :
         LET result == execute_single_task(o)
             record == ExecutionRecord(req[p].user_input, req[p].consultant_response,
                                       contexts[req[p].context].current_plan, result)
         IN  /\ contexts' = HistoryAppend(contexts, req[p].context, record)
             /\ appended' = [appended EXCEPT ![req[p].context] =
                                [n |-> @.n + 1, last |-> record]]
             /\ Finish(p, Final(req[p].consultant_response, result))
    /\ doneViaExec' = [doneViaExec EXCEPT ![req[p].context] = @ + 1]
    /\ UNCHANGED <<is_initialized, conversations, req, issued>>

\* a request that stores its context under its session id again after the role returns
ExecReturn_reinsert(p) ==
    /\ pc[p] = "executing"
    /\ req[p].kind = "process"
    /\ \E o \in ExecOutcomes :
         LET result == execute_single_task(o)
             record == ExecutionRecord(req[p].user_input, req[p].consultant_response,
                                       req[p].execution_plan, result)
         IN  /\ contexts' = HistoryAppend(contexts, req[p].context, record)
             /\ appended' = [appended EXCEPT ![req[p].context] =
                                [n |-> @.n + 1, last |-> record]]
             /\ Finish(p, Final(req[p].consultant_response, result))
    /\ doneViaExec' = [doneViaExec EXCEPT ![req[p].context] = @ + 1]
    /\ conversations' = conversations \cup {req[p].context}
    /\ UNCHANGED <<is_initialized, req, issued>>

\* process_user_request from the return of execute_single_task to return
ExecReturn(p) ==
    /\ pc[p] = "executing"
    /\ req[p].kind = "process"
    /\ \E o \in ExecOutcomes :
         LET result == execute_single_task(o)
             record == ExecutionRecord(req[p].user_input, req[p].consultant_response,
                                       req[p].execution_plan, result)
         IN  /\ contexts' = HistoryAppend(contexts, req[p].context, record)
             /\ appended' = [appended EXCEPT ![req[p].context] =
                                [n |-> @.n + 1, last |-> record]]
             /\ Finish(p, Final(req[p].consultant_response, result))
    /\ doneViaExec' = [doneViaExec EXCEPT ![req[p].context] = @ + 1]
    /\ UNCHANGED <<is_initialized, conversations, req, issued>>

\* stream_execution from the return of the advisory role (338) to the start
\* of the execution role's stream (353) or to the end of the generator
StreamAdvisoryReturn(p) ==
    /\ pc[p] = "advising"
    /\ req[p].kind = "stream"
    /\ \E o \in AdvisoryOutcomes :
         IF o.kind = "raises"
         THEN /\ req' = [req EXCEPT ![p].out = Append(@, StreamBoundary(o.e))]
              /\ pc' = [pc EXCEPT ![p] = "done"]
         ELSE LET resp == process_request(o)
                  c == contexts[req[p].context]
                  execution_plan == extract_execution_plan(resp)
              IN  IF execution_plan # None
                  THEN /\ req' = [req EXCEPT
                                    ![p].consultant_response = resp,
                                    ![p].execution_plan = execution_plan,
                                    ![p].out = @ \o <<AnalysisFragment(resp),
                                                      RunningPlanFragment(execution_plan)>>,
                                    ![p].exec_calls =
                                        <<[thread |-> c.executor_thread_id,
                                           prompt |-> StreamPrompt(execution_plan)]>>]
                       /\ pc' = [pc EXCEPT ![p] = "streaming"]
                  ELSE /\ req' = [req EXCEPT
                                    ![p].consultant_response = resp,
                                    ![p].out = Append(@, AnalysisFragment(resp))]
                       /\ pc' = [pc EXCEPT ![p] = "done"]
    /\ UNCHANGED <<is_initialized, conversations, contexts, ret, issued, doneViaExec, appended>>

\* number of fragments the execution role's stream has produced so far
RoleFragmentCount(p) == Len(req[p].role_out)

\* `yield chunk` (357): what the consumer receives for one fragment of the role
Forward_twice(chunk) == <<chunk, chunk>>

Forward(chunk) == <<chunk>>

\* one fragment of executor_agent.stream_execution, yielded on (353-357)
StreamChunk(p) ==
    /\ pc[p] = "streaming"
    /\ RoleFragmentCount(p) < MaxChunks
    /\ \E f \in RoleFragments :
         req' = [req EXCEPT ![p].role_out = Append(@, f),
                            ![p].out = @ \o Forward(f)]
    /\ UNCHANGED <<is_initialized, conversations, contexts, pc, ret, issued,
                   doneViaExec, appended>>

\* a stream that, at its end, stores the plan and records what it ran
StreamEnd_records(p) ==
    /\ pc[p] = "streaming"
    /\ UNCHANGED req
    /\ pc' = [pc EXCEPT ![p] = "done"]
    /\ doneViaExec' = [doneViaExec EXCEPT ![req[p].context] = @ + 1]
    /\ contexts' = HistoryAppend(
                      [contexts EXCEPT ![req[p].context] =
                          SetPlan(@, req[p].execution_plan)],
                      req[p].context,
                      ExecutionRecord(req[p].user_input, req[p].consultant_response,
                                      req[p].execution_plan, NoResult))
    /\ UNCHANGED <<is_initialized, conversations, ret, issued, appended>>

\* the execution role's stream ends: exhausted, or after the error fragment
\* its own except clause yields (executor_agent.py 245-246)
StreamEnd(p) ==
    /\ pc[p] = "streaming"
    /\ \/ UNCHANGED req
       \/ \E e \in Errors :
            req' = [req EXCEPT ![p].role_out = Append(@, StreamErrorFragment(e)),
                               ![p].out = @ \o Forward(StreamErrorFragment(e))]
    /\ pc' = [pc EXCEPT ![p] = "done"]
    /\ doneViaExec' = [doneViaExec EXCEPT ![req[p].context] = @ + 1]
    /\ UNCHANGED <<is_initialized, conversations, contexts, ret, issued, appended>>

\* execute_current_plan(session_id), to the await of the execution role
StartExecutePlan(p) ==
    /\ pc[p] = "idle"
    /\ issued' = issued + 1
    /\ \E sid \in conversations \cup {UnknownId} :
         LET c == conversations_get(conversations, sid)
             r == [IdleReq EXCEPT !.kind = "execute_plan", !.session_arg = sid,
                                  !.session_id = sid, !.context = c]
         IN  IF c = NoId \/ contexts[c].current_plan = None
             THEN /\ req' = [req EXCEPT ![p] = r]
                  /\ Finish(p, NoPlanAvailable)
             ELSE IF StepsRaise(contexts[c].current_plan.execution_steps)
             THEN /\ req' = [req EXCEPT ![p] = [r EXCEPT !.execution_plan =
                                                            contexts[c].current_plan]]
                  /\ Finish(p, PlanError("AttributeError"))
             ELSE /\ req' = [req EXCEPT ![p] =
                               [r EXCEPT !.execution_plan = contexts[c].current_plan,
                                         !.exec_calls =
                                            <<[thread |-> contexts[c].executor_thread_id,
                                               prompt |-> ExecutionPrompt(
                                                            contexts[c].current_plan)]>>]]
                  /\ pc' = [pc EXCEPT ![p] = "executing"]
                  /\ ret' = [ret EXCEPT ![p] = NoRet]
    /\ UNCHANGED <<is_initialized, conversations, contexts, doneViaExec, appended>>

\* execute_current_plan from the return of execute_single_task to return
ExecutePlanReturn(p) ==
    /\ pc[p] = "executing"
    /\ req[p].kind = "execute_plan"
    /\ \E o \in ExecOutcomes :
         /\ contexts' = [contexts EXCEPT ![req[p].context] = SetPlan(@, None)]
         /\ Finish(p, PlanExecuted(execute_single_task(o)))
    /\ UNCHANGED <<is_initialized, conversations, req, issued, doneViaExec, appended>>

\* The consumer of stream_execution stops iterating: the generator stays
\* suspended at its yield until it is closed, and GeneratorExit, which
\* `except Exception` does not catch, ends it there.  The variant that writes
\* a record of the part delivered is what a cleanup handler would do.
Abandon_records(p) ==
    /\ pc[p] \in {"advising", "streaming"}
    /\ req[p].kind = "stream"
    /\ pc' = [pc EXCEPT ![p] = "abandoned"]
    /\ contexts' = HistoryAppend(contexts, req[p].context,
                                 ExecutionRecord(req[p].user_input,
                                                 req[p].consultant_response,
                                                 req[p].execution_plan, NoResult))
    /\ UNCHANGED <<is_initialized, conversations, req, ret, issued, doneViaExec,
                   appended>>

Abandon(p) ==
    /\ pc[p] \in {"advising", "streaming"}
    /\ req[p].kind = "stream"
    /\ pc' = [pc EXCEPT ![p] = "abandoned"]
    /\ UNCHANGED <<is_initialized, conversations, contexts, req, ret, issued,
                   doneViaExec, appended>>

\* get_conversation_summary(session_id): the dictionary returned
get_conversation_summary_stale(convs, ctxs, session_id) ==
    LET c == conversations_get(convs, session_id) IN
    IF c = NoId THEN [form |-> "summary_error"]
    ELSE [form |-> "summary",
          session_id |-> session_id,
          total_executions |-> 0,
          current_plan |-> FALSE,
          last_execution |-> None]

get_conversation_summary(convs, ctxs, session_id) ==
    LET c == conversations_get(convs, session_id) IN
    IF c = NoId THEN [form |-> "summary_error"]
    ELSE [form |-> "summary",
          session_id |-> session_id,
          total_executions |-> Len(ctxs[c].execution_history),
          current_plan |-> ctxs[c].current_plan # None,
          last_execution |->
              IF ctxs[c].execution_history # <<>>
              THEN ctxs[c].execution_history[Len(ctxs[c].execution_history)]
              ELSE None]

\* list_active_conversations(): the keys of the store
list_active_conversations(convs) == [form |-> "list", ids |-> convs]

\* a call of get_conversation_summary; it does not suspend
Summarize(p) ==
    /\ pc[p] = "idle"
    /\ \E sid \in conversations \cup {UnknownId} :
         /\ req' = [req EXCEPT ![p] =
                       [IdleReq EXCEPT !.kind = "summary", !.session_arg = sid,
                                       !.session_id = sid,
                                       !.context = conversations_get(conversations, sid)]]
         /\ Finish(p, get_conversation_summary(conversations, contexts, sid))
    /\ UNCHANGED <<is_initialized, conversations, contexts, issued, doneViaExec,
                   appended>>

\* a call of list_active_conversations
ListActive(p) ==
    /\ pc[p] = "idle"
    /\ req' = [req EXCEPT ![p] = [IdleReq EXCEPT !.kind = "list"]]
    /\ Finish(p, list_active_conversations(conversations))
    /\ UNCHANGED <<is_initialized, conversations, contexts, issued, doneViaExec,
                   appended>>

\* the caller takes the result; its next call is a new request.  The call's
\* reference to its context is gone: a context no one refers to is collected.
Collect(p) ==
    /\ pc[p] \in {"done", "abandoned"}
    /\ pc' = [pc EXCEPT ![p] = "idle"]
    /\ req' = [req EXCEPT ![p] = IdleReq]
    /\ ret' = [ret EXCEPT ![p] = NoRet]
    /\ contexts' = Restrict(contexts, conversations \cup HeldBy(Procs \ {p}))
    /\ doneViaExec' = Restrict(doneViaExec, conversations \cup HeldBy(Procs \ {p}))
    /\ appended' = Restrict(appended, conversations \cup HeldBy(Procs \ {p}))
    /\ UNCHANGED <<is_initialized, conversations, issued>>

\* no returned value is waiting for its caller
Quiet == \A q \in Procs : pc[q] \notin {"done", "abandoned"}

\* One caller, who makes its calls one after the other.
Caller == "p1"

Next ==
    \/ Quiet /\ Initialize /\ UNCHANGED unitVars
    \/ Quiet /\ CreateConversation /\ UNCHANGED <<regVars, unitVars>>
    \/ Quiet /\ Close /\ UNCHANGED unitVars
    \/ Quiet /\ issued < MaxRequests /\ StartProcess(Caller, Inputs) /\ UNCHANGED <<regVars, unitVars>>
    \/ Quiet /\ AdvisoryReturn(Caller) /\ UNCHANGED <<regVars, unitVars>>
    \/ Quiet /\ ExecReturn(Caller) /\ UNCHANGED <<regVars, unitVars>>
    \/ Quiet /\ issued < MaxRequests /\ StartStream(Caller) /\ UNCHANGED <<regVars, unitVars>>
    \/ Quiet /\ StreamAdvisoryReturn(Caller) /\ UNCHANGED <<regVars, unitVars>>
    \/ Quiet /\ StreamChunk(Caller) /\ UNCHANGED <<regVars, unitVars>>
    \/ Quiet /\ StreamEnd(Caller) /\ UNCHANGED <<regVars, unitVars>>
    \/ Quiet /\ issued < MaxRequests /\ StartExecutePlan(Caller) /\ UNCHANGED <<regVars, unitVars>>
    \/ Quiet /\ ExecutePlanReturn(Caller) /\ UNCHANGED <<regVars, unitVars>>
    \/ Quiet /\ Abandon(Caller) /\ UNCHANGED <<regVars, unitVars>>
    \/ Quiet /\ Summarize(Caller) /\ UNCHANGED <<regVars, unitVars>>
    \/ Quiet /\ ListActive(Caller) /\ UNCHANGED <<regVars, unitVars>>
    \/ Collect(Caller) /\ UNCHANGED <<regVars, unitVars>>

Spec == Init /\ [][Next]_vars

\* The same caller under fairness.  The two roles are external services that
\* answer or fail: a pending role call, and a role's stream, come to an end.
\* The caller sends the same input in every request.
FairNext ==
    \/ Quiet /\ Initialize /\ UNCHANGED unitVars
    \/ Quiet /\ CreateConversation /\ UNCHANGED <<regVars, unitVars>>
    \/ Quiet /\ Close /\ UNCHANGED unitVars
    \/ Quiet /\ issued < MaxFairRequests /\ StartProcess(Caller, {InputOf[Caller]}) /\ UNCHANGED <<regVars, unitVars>>
    \/ Quiet /\ AdvisoryReturn(Caller) /\ UNCHANGED <<regVars, unitVars>>
    \/ Quiet /\ ExecReturn(Caller) /\ UNCHANGED <<regVars, unitVars>>
    \/ /\ Quiet /\ issued < MaxFairRequests /\ StartStream(Caller) /\ UNCHANGED <<regVars, unitVars>>
       /\ req'[Caller].user_input = InputOf[Caller]
    \/ Quiet /\ StreamAdvisoryReturn(Caller) /\ UNCHANGED <<regVars, unitVars>>
    \/ Quiet /\ StreamChunk(Caller) /\ UNCHANGED <<regVars, unitVars>>
    \/ Quiet /\ StreamEnd(Caller) /\ UNCHANGED <<regVars, unitVars>>
    \/ Quiet /\ issued < MaxFairRequests /\ StartExecutePlan(Caller) /\ UNCHANGED <<regVars, unitVars>>
    \/ Quiet /\ ExecutePlanReturn(Caller) /\ UNCHANGED <<regVars, unitVars>>
    \/ Quiet /\ Abandon(Caller) /\ UNCHANGED <<regVars, unitVars>>
    \/ Collect(Caller) /\ UNCHANGED <<regVars, unitVars>>

FairSpec ==
    /\ Init
    /\ [][FairNext]_vars
    /\ WF_vars(AdvisoryReturn(Caller) /\ UNCHANGED <<regVars, unitVars>>)
    /\ WF_vars(ExecReturn(Caller) /\ UNCHANGED <<regVars, unitVars>>)
    /\ WF_vars(StreamAdvisoryReturn(Caller) /\ UNCHANGED <<regVars, unitVars>>)
    /\ WF_vars(StreamEnd(Caller) /\ UNCHANGED <<regVars, unitVars>>)
    /\ WF_vars(ExecutePlanReturn(Caller) /\ UNCHANGED <<regVars, unitVars>>)

\* Two callers whose process_user_request calls overlap; each sends its own
\* input.
ConcurrentNext ==
    \/ Quiet /\ Initialize /\ UNCHANGED unitVars
    \/ Quiet /\ CreateConversation /\ UNCHANGED <<regVars, unitVars>>
    \/ Quiet /\ Close /\ UNCHANGED unitVars
    \/ \E p \in Procs : Quiet /\ issued < MaxConcurrentRequests /\ StartProcess(p, {InputOf[p]}) /\ UNCHANGED <<regVars, unitVars>>
    \/ \E p \in Procs : Quiet /\ AdvisoryReturn(p) /\ UNCHANGED <<regVars, unitVars>>
    \/ \E p \in Procs : Quiet /\ ExecReturn(p) /\ UNCHANGED <<regVars, unitVars>>
    \/ \E p \in Procs : Collect(p) /\ UNCHANGED <<regVars, unitVars>>

ConcurrentSpec == Init /\ [][ConcurrentNext]_vars

(***************************************************************************)
(* initialize() with providers configured (mcp_client.py).  Nothing else   *)
(* runs while a provider is being connected, so one attempt is one step.   *)
(***************************************************************************)
Providers == {"a", "b"}        \* server names of the configuration
ToolNames == {"ls", "cat"}     \* capability names

\* servers_config.items(): the server names in the order of the mapping
ServersConfigs ==
    {cfg \in UNION {[1..n -> Providers] : n \in 0..Cardinality(Providers)} :
        \A i, j \in DOMAIN cfg : i # j => cfg[i] # cfg[j]}

\* One entry of response.tools as a provider lists it; every provider words
\* its descriptions its own way.  usable tells whether MCPTool(...) accepts
\* the entry (a description that is no string is refused).
ToolInfo(name, server_name, usable) ==
    [name |-> name, description |-> server_name, usable |-> usable]

ToolLists(server_name) ==
    UNION {[1..n -> {ToolInfo(nm, server_name, u) : nm \in ToolNames, u \in BOOLEAN}] :
              n \in 0..MaxTools}

\* What a provider does when connected to: it cannot be started or the
\* handshake fails; list_tools fails; or it lists its tools.
ConnectOutcomes(server_name) ==
    [kind : {"ok"}, tools : ToolLists(server_name)]
      \cup [kind : {"no_session", "no_tools"}, tools : {<<>>}]

\* MCPTool(tool_info, session, server_name)
MCPTool(tool_info, server_name) ==
    [name |-> tool_info.name, description |-> tool_info.description,
     server_name |-> server_name]

\* the loop of lines 153-165: a tool whose MCPTool(...) raises is left out
RECURSIVE server_tools(_, _)
server_tools(listed, server_name) ==
    IF listed = <<>> THEN <<>>
    ELSE IF Head(listed).usable
         THEN <<MCPTool(Head(listed), server_name)>> \o server_tools(Tail(listed), server_name)
         ELSE server_tools(Tail(listed), server_name)

\* MCPClient._connect_to_server: the client after the attempt
connect_to_server(client, server_name, o) ==
    IF o.kind = "no_session" THEN client
    ELSE IF o.kind = "no_tools"
    THEN [client EXCEPT !.sessions = @ \cup {server_name}]
    ELSE [client EXCEPT
            !.sessions = @ \cup {server_name},
            !.all_tools = @ \o server_tools(o.tools, server_name),
            !.tools = (server_name :> server_tools(o.tools, server_name)) @@ @]

\* the loop of connect_to_servers with the except clause of
\* _connect_to_server: the servers left after an attempt
NextServers_abort(pending, o) ==
    IF o.kind = "ok" THEN Tail(pending) ELSE <<>>

NextServers(pending, o) == Tail(pending)

\* MCPClient.get_tools_info(): by server, "name: description" of its tools
get_tools_info(client) ==
    [server_name \in DOMAIN client.tools |->
        [i \in DOMAIN client.tools[server_name] |->
            <<client.tools[server_name][i].name,
              client.tools[server_name][i].description>>]]

\* ExecutorAgent.get_tool_info(tool_name)
get_tool_info(agent, tool_name) ==
    IF tool_name \in DOMAIN agent.tools_map
    THEN [name |-> agent.tools_map[tool_name].name,
          description |-> agent.tools_map[tool_name].description]
    ELSE None

\* initialize(mcp_servers_config) up to the first connection attempt
InitializeStart ==
    /\ connecting.pc = "idle"
    /\ \E cfg \in ServersConfigs :
         connecting' = [pc |-> "connecting", servers_config |-> cfg,
                        pending |-> cfg, attempted |-> <<>>]
    /\ mcp_client' = MCPClient
    /\ UNCHANGED <<executor_agent, is_initialized, conversations, contexts, pc, req,
                   ret, issued, doneViaExec, appended>>

\* one turn of the loop of connect_to_servers
ConnectToServer ==
    /\ connecting.pc = "connecting"
    /\ connecting.pending # <<>>
    /\ LET server_name == Head(connecting.pending) IN
       \E o \in ConnectOutcomes(server_name) :
           /\ mcp_client' = connect_to_server(mcp_client, server_name, o)
           /\ connecting' =
                 [connecting EXCEPT
                    !.pending = NextServers(@, o),
                    !.attempted = Append(@, [server_name |-> server_name, o |-> o])]
    /\ UNCHANGED <<executor_agent, is_initialized, conversations, contexts, pc, req,
                   ret, issued, doneViaExec, appended>>

\* initialize() after connect_to_servers returned: the agents are built on
\* get_all_tools() and is_initialized is set, or a constructor raises and
\* initialize re-raises
InitializeFinish ==
    /\ connecting.pc = "connecting"
    /\ connecting.pending = <<>>
    /\ connecting' = [connecting EXCEPT !.pc = "idle"]
    /\ \/ /\ executor_agent' = ExecutorAgent(get_all_tools(mcp_client))
          /\ is_initialized' = TRUE
       \/ UNCHANGED <<executor_agent, is_initialized>>
    /\ UNCHANGED <<mcp_client, conversations, contexts, pc, req, ret, issued,
                   doneViaExec, appended>>

RegistryNext ==
    \/ InitializeStart /\ UNCHANGED unitVars
    \/ ConnectToServer /\ UNCHANGED unitVars
    \/ InitializeFinish /\ UNCHANGED unitVars
    \/ Close /\ UNCHANGED unitVars

RegistrySpec == Init /\ [][RegistryNext]_vars

(***************************************************************************)
(* Tool invocation through the client's MCPTool objects (MCPTool._arun)    *)
(* and close().  The client starts connected to one provider that lists    *)
(* two tools, which is the state initialize() leaves.                      *)
(***************************************************************************)
MaxInvocations == 2
MaxCloses == 2

\* the client after connect_to_servers({"a": ...}) with provider a listing
\* both tools
ConnectedClient ==
    connect_to_server(MCPClient, "a",
        [kind |-> "ok",
         tools |-> <<ToolInfo("ls", "a", TRUE), ToolInfo("cat", "a", TRUE)>>])

\* await self.session.call_tool(self.name, kwargs): a result, or an
\* exception with str(e) = e
CallOutcomes == [kind : {"ok"}, e : {""}] \cup [kind : {"raise"}, e : Errors]

NoValue == [kind |-> "none", parts |-> <<>>]

\* What _arun returns.  A string is spelled as the sequence of its parts:
\* f"Error calling tool: {str(e)}" is the fixed text followed by str(e).
\* The tool's name goes to logger.error only.
arun(tool, o) ==
    IF o.kind = "ok" THEN [kind |-> "result", parts |-> <<>>]
    ELSE [kind |-> "str", parts |-> <<"Error calling tool: ", o.e>>]

\* _arun up to its await
ArunCall ==
    /\ mcp_client # None
    /\ Len(bridge.calls) < MaxInvocations
    /\ \E i \in DOMAIN mcp_client.all_tools :
         bridge' = [calls |-> Append(bridge.calls,
                                 [tool |-> mcp_client.all_tools[i], pc |-> "awaiting",
                                  o |-> [kind |-> "none", e |-> ""], value |-> NoValue]),
                    closes |-> 0]
    /\ UNCHANGED <<is_initialized, conversations, contexts, pc, req, ret, issued,
                   doneViaExec, appended, regVars, applied>>

\* call_tool completes and _arun returns
ArunReturn ==
    /\ \E i \in DOMAIN bridge.calls :
         /\ bridge.calls[i].pc = "awaiting"
         /\ \E o \in CallOutcomes :
              bridge' = [calls |-> [bridge.calls EXCEPT
                                      ![i] = [@ EXCEPT !.pc = "returned", !.o = o,
                                                       !.value = arun(@.tool, o)]],
                         closes |-> 0]
    /\ UNCHANGED <<is_initialized, conversations, contexts, pc, req, ret, issued,
                   doneViaExec, appended, regVars, applied>>

\* close(), counted
CountedClose ==
    /\ Close
    /\ bridge' = [bridge EXCEPT
                    !.closes = IF @ < MaxCloses THEN @ + 1 ELSE MaxCloses]
    /\ UNCHANGED applied

\* the orchestrator after initialize({"a": ...})
BridgeInit ==
    /\ is_initialized = TRUE
    /\ conversations = {}
    /\ contexts = << >>
    /\ pc = [p \in Procs |-> "idle"]
    /\ req = [p \in Procs |-> IdleReq]
    /\ ret = [p \in Procs |-> NoRet]
    /\ issued = 0
    /\ doneViaExec = << >>
    /\ appended = << >>
    /\ mcp_client = ConnectedClient
    /\ executor_agent = ExecutorAgent(get_all_tools(ConnectedClient))
    /\ connecting = NotConnecting
    /\ applied = NotApplied
    /\ bridge = IdleBridge

BridgeNext ==
    \/ ArunCall
    \/ ArunReturn
    \/ CountedClose
    \/ Initialize /\ bridge' = [bridge EXCEPT !.closes = 0] /\ UNCHANGED applied
    \/ CreateConversation /\ bridge' = [bridge EXCEPT !.closes = 0]
          /\ UNCHANGED <<regVars, applied>>

BridgeSpec == BridgeInit /\ [][BridgeNext]_vars

(***************************************************************************)
(* Expansion of the provider's arguments (mcp_client.py 122-129).          *)
(* A string is spelled as head, body and tail, so that startswith('${'),   *)
(* endswith('}') and arg[2:-1] can be computed on it.                      *)
(***************************************************************************)
MaxArgs == 3

Str(head, body, tail) == [isStr |-> TRUE, head |-> head, body |-> body, tail |-> tail]
Plain(s) == Str("", s, "")
\* an argument of the configuration that is no string
NotStr == [isStr |-> FALSE, head |-> "", body |-> "7", tail |-> ""]

EnvNames == {"HOME", "KEY"}
EnvValues == {"", "v"}
\* os.environ: some of the names set, each to a value
Environs == UNION {[S -> EnvValues] : S \in SUBSET EnvNames}

\* config.get('args', []) entries: x, ${HOME}, ${KEY}, ${}, ${HOME, x${HOME},
\* ${HOME}x, 7
ArgForms ==
    {Plain("x"), Str("${", "HOME", "}"), Str("${", "KEY", "}"), Str("${", "", "}"),
     Str("${", "HOME", ""), Str("x${", "HOME", "}"), Str("${", "HOME", "}x"), NotStr}

ArgLists == UNION {[1..n -> ArgForms] : n \in 0..MaxArgs}

\* os.environ.get(env_var, default) with a default that is blank
environ_get_blank(environ, env_var, default) ==
    IF env_var \in DOMAIN environ THEN Plain(environ[env_var]) ELSE Plain("")

\* os.environ.get(env_var, default)
environ_get(environ, env_var, default) ==
    IF env_var \in DOMAIN environ THEN Plain(environ[env_var]) ELSE default

\* one turn of the loop of lines 123-128: what is appended for arg
expand_arg(arg, environ) ==
    IF arg.isStr /\ arg.head = "${" /\ arg.tail = "}"
    THEN environ_get(environ, arg.body, arg)
    ELSE arg

\* the loop of lines 123-128: expanded_args when it ends
RECURSIVE expanded_args(_, _)
expanded_args(args, environ) ==
    IF args = <<>> THEN <<>>
    ELSE <<expand_arg(Head(args), environ)>> \o expanded_args(Tail(args), environ)

\* the engine untouched, with one function application to make
UnitInit(f, args) ==
    /\ EngineInit
    /\ bridge = IdleBridge
    /\ \E a \in args : applied = [f |-> f, arg |-> a, result |-> None, done |-> FALSE]

\* the application is made
Apply(f, result) ==
    /\ applied.f = f
    /\ ~applied.done
    /\ applied' = [applied EXCEPT !.result = result, !.done = TRUE]
    /\ UNCHANGED <<is_initialized, conversations, contexts, pc, req, ret, issued,
                   doneViaExec, appended, regVars, bridge>>

ExpandInit == UnitInit("expanded_args", [args : ArgLists, environ : Environs])

ExpandArgs == Apply("expanded_args", expanded_args(applied.arg.args, applied.arg.environ))

ExpandSpec == ExpandInit /\ [][ExpandArgs]_vars

(***************************************************************************)
(* extract_execution_plan on its own: every text of up to MaxLines lines   *)
(* over LineForms, and some longer ones.                                   *)
(***************************************************************************)
MaxLines == 5

LineForms ==
    {Prose, Blank, Padded(Opener), OpenerTail, Padded(Closer), OtherFence,
     Json(ObjJ(PartialMembers)), Json(ListJ)}

\* texts with an object spelled over several lines
LongTexts ==
    {<<Prose, Opener, BraceOpen, Member("task_description", StrV(a)), Blank,
       Member("task_description", StrV(b)), Padded(BraceClose), Closer, Prose>> :
          a, b \in {"t1", "t2"}}
      \cup {<<Opener, BraceOpen, Member("task_description", StrV("t1")), BraceClose>>,
            <<Opener, BraceOpen, Member("task_description", StrV("t1")), Closer>>}

Texts == UNION {[1..n -> LineForms] : n \in 0..MaxLines} \cup LongTexts

ParseInit == UnitInit("extract_execution_plan", Texts)

Extract == Apply("extract_execution_plan", extract_execution_plan(applied.arg))

ParseSpec == ParseInit /\ [][Extract]_vars

(***************************************************************************)
(* MCPToolInput.create_model (mcp_client.py 28-54).  A schema is its       *)
(* properties in the order of the mapping and its required names; a        *)
(* property schema is the value under its 'type' key.                      *)
(***************************************************************************)
MaxParams == 2

ParamNames == {"path", "n", "flag"}

\* "type": ["string", "null"], a list of kinds
UnionKind == "<list>"

\* field_schema.get('type', 'string') over what providers send: the six
\* kinds of the table, another kind, no 'type' key, a list of kinds
Kinds == {"string", "integer", "number", "boolean", "object", "array", "null",
          Absent, UnionKind}

Properties ==
    {props \in UNION {[1..n -> [name : ParamNames, type : Kinds]] : n \in 0..MaxParams} :
        \A i, j \in DOMAIN props : i # j => props[i].name # props[j].name}

Schemas == [properties : Properties, required : SUBSET ParamNames]

\* the table of lines 37-44
PyTypes ==
    [k \in {"string", "integer", "number", "boolean", "object", "array"} |->
        CASE k = "string" -> "str"
          [] k = "integer" -> "int"
          [] k = "number" -> "float"
          [] k = "boolean" -> "bool"
          [] k = "object" -> "dict"
          [] k = "array" -> "list"]

\* {...}.get(field_type, str): the type, or the TypeError of looking up a
\* list in a dict
py_type(field_type) ==
    IF field_type = UnionKind THEN [raised |-> "TypeError", py |-> ""]
    ELSE IF field_type \in DOMAIN PyTypes THEN [raised |-> "", py |-> PyTypes[field_type]]
    ELSE [raised |-> "", py |-> "str"]

\* field_schema.get('type', 'string')
field_type(field_schema) == IF field_schema.type = Absent THEN "string" ELSE field_schema.type

\* the default of a field: ... (required), or None
Ellipsis == "<required>"
NoDefault == "<None>"

\* the loop of lines 34-50: the fields in the order they were added, or the
\* exception that ended the loop
RECURSIVE fields(_, _)
fields(properties, required_fields) ==
    IF properties = <<>> THEN [raised |-> "", fields |-> <<>>]
    ELSE LET field_schema == Head(properties)
             t == py_type(field_type(field_schema))
             rest == fields(Tail(properties), required_fields)
         IN  IF t.raised # "" THEN [raised |-> t.raised, fields |-> <<>>]
             ELSE IF rest.raised # "" THEN rest
             ELSE [raised |-> "",
                   fields |-> <<[name |-> field_schema.name, py_type |-> t.py,
                                 default |-> IF field_schema.name \in required_fields
                                             THEN Ellipsis ELSE NoDefault]>>
                              \o rest.fields]

\* MCPToolInput.create_model(schema): the model with its fields, or the
\* exception
create_model(schema) == fields(schema.properties, schema.required)

SchemaInit == UnitInit("create_model", Schemas)

CreateModel == Apply("create_model", create_model(applied.arg))

SchemaSpec == SchemaInit /\ [][CreateModel]_vars

(***************************************************************************)
(* The execution prompt on its own (orchestrator.py 212-219, 281-288):     *)
(* every plan of up to MaxSteps steps over StepForms.                      *)
(***************************************************************************)
MaxSteps == 3

\* a step with or without 'description' and 'action', or a step that is a
\* string
StepForms ==
    {ObjItem(d, a) : d \in {Absent, "", "d1"}, a \in {Absent, "a1"}}
      \cup {StrItem("list dir")}

Plans ==
    {TaskPlan(StrV("t1"), ListV(<<StrItem("ls")>>), es, StrV("o1")) :
        es \in {ListV(steps) : steps \in UNION {[1..n -> StepForms] : n \in 0..MaxSteps}}
                 \cup {NumV, StrV("")}}

\* the f-string evaluated on a plan: the prompt, or the exception of
\* enumerate or of step.get
execution_prompt(plan) ==
    IF StepsRaise(plan.execution_steps) THEN Raised("AttributeError")
    ELSE ExecutionPrompt(plan)

PromptInit == UnitInit("execution_prompt", Plans)

BuildPrompt == Apply("execution_prompt", execution_prompt(applied.arg))

PromptSpec == PromptInit /\ [][BuildPrompt]_vars

(***************************************************************************)
(* The execution role's graph (executor_agent.py 98-141).  One run of the  *)
(* compiled graph is kept in `applied`: arg is the thread's messages when   *)
(* the run begins, result the run's state, i.e. the node to run next, the   *)
(* messages and the number of steps made.                                   *)
(***************************************************************************)
MaxToolCalls == 2
MaxSupersteps == 5    \* stands for the graph's recursion limit

\* HumanMessage, SystemMessage and ToolMessage have no tool_calls attribute;
\* an AIMessage has one, a list that may be empty
HumanMessage == [type |-> "human", tool_calls |-> <<>>, status |-> ""]
AIMessage(calls) == [type |-> "ai", tool_calls |-> calls, status |-> ""]
ToolMessage(call, status) == [type |-> "tool", tool_calls |-> <<>>, status |-> status]
hasattr_tool_calls(m) == m.type = "ai"

\* messages[-1]
last_of(messages) == messages[Len(messages)]

ToolCallLists == {[i \in 1..n |-> i] : n \in 0..MaxToolCalls}

\* the thread as execute_single_task starts a run on it: the task alone, or
\* the task after the messages an earlier run on the thread left
Threads ==
    {<<HumanMessage>>,
     <<HumanMessage, AIMessage(<<>>), HumanMessage>>}

\* should_continue(state)
should_continue_attr_only(state) ==
    IF hasattr_tool_calls(last_of(state.messages)) THEN "tools" ELSE "end"

should_continue(state) ==
    LET last_message == last_of(state.messages) IN
    IF hasattr_tool_calls(last_message) /\ last_message.tool_calls # <<>>
    THEN "tools"
    ELSE "end"

\* add_conditional_edges("executor", should_continue, {...})
conditional_edges(route) == IF route = "tools" THEN "tools" ELSE "__end__"

\* executor_node(state): the update it returns, given the model's response.
\* The system prompt is put before the messages handed to the model only,
\* never into the state.
executor_node(state, response) == <<response>>

\* ToolNode: one ToolMessage for each tool call of the last message, with
\* the tool's result or its error
RECURSIVE tool_messages(_, _)
tool_messages(calls, statuses) ==
    IF calls = <<>> THEN <<>>
    ELSE <<ToolMessage(Head(calls), Head(statuses))>>
            \o tool_messages(Tail(calls), Tail(statuses))

\* MessagesState's reducer: the update is appended
add_messages(messages, update) == messages \o update

Run(node, messages, steps) == [node |-> node, messages |-> messages, steps |-> steps]

\* graph.ainvoke(initial_state, config): the entry point is the executor
GraphInit ==
    /\ EngineInit
    /\ bridge = IdleBridge
    /\ \E t \in Threads :
         applied = [f |-> "graph", arg |-> t, result |-> Run("executor", t, 0),
                    done |-> FALSE]

GraphStep(run) ==
    /\ applied.f = "graph"
    /\ applied' = [applied EXCEPT !.result = run,
                                  !.done = run.node \in {"__end__", "aborted"}]
    /\ UNCHANGED <<is_initialized, conversations, contexts, pc, req, ret, issued,
                   doneViaExec, appended, regVars, bridge>>

\* the executor node runs, and the conditional edge chooses what follows
ExecutorStep ==
    /\ applied.result.node = "executor"
    /\ applied.result.steps < MaxSupersteps
    /\ \E calls \in ToolCallLists :
         LET state == [messages |->
                          add_messages(applied.result.messages,
                                       executor_node(applied.result, AIMessage(calls)))]
         IN  GraphStep(Run(conditional_edges(should_continue(state)),
                           state.messages, applied.result.steps + 1))

\* llm_with_tools.invoke raises: the run ends with the exception
ExecutorRaises ==
    /\ applied.result.node = "executor"
    /\ applied.result.steps < MaxSupersteps
    /\ GraphStep(Run("aborted", applied.result.messages, applied.result.steps))

\* the tools node runs; add_edge("tools", "executor")
ToolsStep ==
    /\ applied.result.node = "tools"
    /\ applied.result.steps < MaxSupersteps
    /\ LET calls == last_of(applied.result.messages).tool_calls IN
       \E statuses \in [DOMAIN calls -> {"success", "error"}] :
         GraphStep(Run("executor",
                       add_messages(applied.result.messages,
                                    tool_messages(calls, statuses)),
                       applied.result.steps + 1))

\* the recursion limit is reached before the end state: GraphRecursionError
RecursionLimit ==
    /\ applied.result.node \in {"executor", "tools"}
    /\ applied.result.steps = MaxSupersteps
    /\ GraphStep(Run("aborted", applied.result.messages, applied.result.steps))

GraphNext ==
    \/ ExecutorStep
    \/ ExecutorRaises
    \/ ToolsStep
    \/ RecursionLimit

GraphSpec == GraphInit /\ [][GraphNext]_vars

TypeOK ==
    /\ is_initialized \in BOOLEAN
    /\ conversations \subseteq DOMAIN contexts
    /\ DOMAIN contexts \subseteq SessionIds
    /\ DOMAIN doneViaExec = DOMAIN contexts
    /\ DOMAIN appended = DOMAIN contexts
    /\ \A p \in Procs :
         pc[p] \in {"idle", "advising", "executing", "streaming", "done", "abandoned"}

(***************************************************************************)
(* Properties.                                                             *)
(***************************************************************************)
History(c) == contexts[c].execution_history
Last(seq) == seq[Len(seq)]
IsRequest(r) == r.kind \in {"process", "stream"}
\* the call of p takes a step that ends it
Returns(p) == pc[p] \in {"advising", "executing", "streaming"} /\ pc'[p] = "done"
\* the call of p leaves the advisory phase with a response
Advised(p) ==
    /\ pc[p] = "advising"
    /\ pc'[p] # "advising"
    /\ req'[p].consultant_response # NoText

\* C1: in a run whose requests are issued one after the other, the length of
\* each session's execution_history equals the number of requests on that
\* session that ran the execution phase to its end.
C1_HistoryCountsExecuted ==
    \A c \in DOMAIN contexts : Len(History(c)) = doneViaExec[c]

\* C2: a process_user_request call that extracted a plan with auto_execute
\* true ends having stored the plan, invoked the execution role exactly once
\* with the session's execution thread id, and appended exactly one record
\* made of its own input, advisory response, plan and execution result.
C2_AutoExecuteRunsOnce ==
    [][\A p \in Procs :
         (/\ Returns(p)
          /\ req'[p].kind = "process"
          /\ req'[p].auto_execute
          /\ extract_execution_plan(req'[p].consultant_response) # None)
         => (/\ contexts'[req[p].context].current_plan =
                   extract_execution_plan(req'[p].consultant_response)
             /\ Len(req'[p].exec_calls) = 1
             /\ req'[p].exec_calls[1].thread = <<"executor", req[p].session_id>>
             /\ contexts'[req[p].context].execution_history =
                   Append(History(req[p].context),
                          ExecutionRecord(req'[p].user_input, req'[p].consultant_response,
                                          extract_execution_plan(req'[p].consultant_response),
                                          ret'[p].result)))]_vars

\* C3: when the advisory response holds no extractable plan, the call
\* returns that response unchanged, never invokes the execution role and
\* changes no context (no record appended), whatever auto_execute is.
C3_NoPlanReturnsVerbatim ==
    [][\A p \in Procs :
         (/\ Advised(p)
          /\ req[p].kind = "process"
          /\ extract_execution_plan(req'[p].consultant_response) = None)
         => (/\ pc'[p] = "done"
             /\ ret'[p] = Verbatim(req'[p].consultant_response)
             /\ req'[p].exec_calls = <<>>
             /\ contexts' = contexts)]_vars

\* Scenario C: session_id=None, auto_execute=True, no fenced block
C3_Witness ==
    \E p \in Procs :
        /\ pc[p] = "done"
        /\ req[p].kind = "process"
        /\ req[p].session_arg = NoId
        /\ req[p].auto_execute
        /\ req[p].consultant_response = NoPlanText
        /\ ret[p] = Verbatim(NoPlanText)
        /\ History(req[p].context) = <<>>

\* C4: a plan extracted with auto_execute false is stored as current_plan;
\* the execution role is not invoked, the history is unchanged and the call
\* returns the advisory response with the deferred-execution notice.
C4_DeferredStoresPlan ==
    [][\A p \in Procs :
         (/\ Advised(p)
          /\ req[p].kind = "process"
          /\ ~req[p].auto_execute
          /\ extract_execution_plan(req'[p].consultant_response) # None)
         => (/\ pc'[p] = "done"
             /\ ret'[p] = Deferred(req'[p].consultant_response)
             /\ req'[p].exec_calls = <<>>
             /\ contexts' = [contexts EXCEPT ![req[p].context].current_plan =
                                extract_execution_plan(req'[p].consultant_response)])]_vars

C4_Witness ==
    \E p \in Procs :
        /\ pc[p] = "done"
        /\ ret[p].form = "deferred"
        /\ req[p].execution_plan # None
        /\ contexts[req[p].context].current_plan = req[p].execution_plan
        /\ History(req[p].context) = <<>>

\* C5: when the advisory or the execution role call of a request fails, the
\* caller gets a diagnostic string and no record is appended to the
\* session's history for the failed attempt.
RoleFailed(p) ==
    /\ Returns(p)
    /\ req[p].kind = "process"
    /\ \/ ret'[p].form = "final" /\ ret'[p].result.kind = "task_error"
       \/ ret'[p].form = "error" /\ ret'[p].err \in Errors
       \/ ret'[p].form = "verbatim" /\ ret'[p].text[1].kind = "diag"

C5_RoleFailureAppendsNothing ==
    [][\A p \in Procs :
         RoleFailed(p) =>
            contexts'[req[p].context].execution_history = History(req[p].context)]_vars

\* C6: a request that ends in a fault caught at the engine boundary leaves
\* current_plan and execution_history of every context as they were.
C6_FaultLeavesStateIntact ==
    [][\A p \in Procs :
         (Returns(p) /\ req[p].kind = "process" /\ ret'[p].form = "error")
            => contexts' = contexts]_vars

\* C7: process_user_request always returns a string and stream_execution
\* always ends with fragments delivered: no exception reaches the caller.
ReturnedStrings ==
    {"not_initialized", "session_not_found", "verbatim", "deferred", "final", "error"}

C7_NeverPropagates ==
    \A p \in Procs :
        pc[p] = "done" =>
            /\ req[p].kind = "process" => ret[p].form \in ReturnedStrings
            /\ req[p].kind = "stream" =>
                  /\ ret[p] = NoRet
                  /\ req[p].out # <<>>
                  /\ \A i \in DOMAIN req[p].out : req[p].out[i].kind # "raised"

\* a fault of the prompt synthesis, handed back as a diagnostic
C7_Witness ==
    \E p \in Procs :
        /\ pc[p] = "done"
        /\ req[p].kind = "process"
        /\ ret[p] = ErrorMsg("AttributeError")

\* C8 as amended: on an initialized engine a request with a session id that
\* is not in the store returns the session-not-found message; no role is
\* invoked, no session is created and no context changes.
UnknownSessionCall(p) ==
    /\ pc[p] = "idle"
    /\ pc'[p] # "idle"
    /\ IsRequest(req'[p])
    /\ req'[p].session_arg # NoId
    /\ req'[p].session_arg \notin conversations

NotProcessed(p) ==
    /\ pc'[p] = "done"
    /\ req'[p].advisory_calls = <<>>
    /\ req'[p].exec_calls = <<>>
    /\ conversations' = conversations
    /\ contexts' = contexts

SaysNotFound(p) ==
    IF req'[p].kind = "stream"
    THEN req'[p].out = <<NotFoundFragment>>
    ELSE ret'[p] = SessionNotFound

C8_UnknownSessionRejected ==
    [][\A p \in Procs :
         (UnknownSessionCall(p) /\ is_initialized) => (NotProcessed(p) /\ SaysNotFound(p))]_vars

\* C8 as stated: the same in every engine state.
C8_UnknownSessionAlwaysNotFound ==
    [][\A p \in Procs :
         UnknownSessionCall(p) => (NotProcessed(p) /\ SaysNotFound(p))]_vars

C8_Witness ==
    \E p \in Procs :
        /\ pc[p] = "done"
        /\ req[p].kind = "process"
        /\ req[p].session_arg = UnknownId
        /\ ret[p] = SessionNotFound
        /\ conversations # {}

\* C9: in every interleaving of two callers, a context changes only by a
\* step of a request issued against that context's session, and the change
\* is that request's own plan or a record of that request's own values.
OwnWrite(p, c) ==
    /\ InFlight(p)
    /\ req[p].session_id = c
    /\ req[p].context = c
    /\ \/ contexts'[c] = SetPlan(contexts[c], req'[p].execution_plan)
       \/ contexts'[c] =
            AppendRecord(contexts[c],
                         ExecutionRecord(req[p].user_input, req[p].consultant_response,
                                         req[p].execution_plan, ret'[p].result))

C9_SessionsIsolated ==
    [][\A c \in (DOMAIN contexts) \cap (DOMAIN contexts') :
         contexts'[c] # contexts[c] => \E p \in Procs : OwnWrite(p, c)]_vars

\* one request has appended its record while another, on another session,
\* is suspended in the execution role
C9_Witness ==
    \E p, q \in Procs :
        /\ pc[p] = "executing"
        /\ pc[q] = "done"
        /\ ret[q].form = "final"
        /\ req[p].session_id # req[q].session_id
        /\ History(req[q].context) # <<>>
        /\ History(req[p].context) = <<>>

\* C10: while the advisory call of a request is pending nothing has been
\* extracted or executed; the execution role is invoked only with the plan
\* extracted from the advisory response that request obtained.
C10_PhasesInOrder ==
    \A p \in Procs :
        IsRequest(req[p]) =>
            /\ pc[p] = "advising" =>
                  /\ req[p].advisory_calls # <<>>
                  /\ req[p].consultant_response = NoText
                  /\ req[p].execution_plan = None
                  /\ req[p].exec_calls = <<>>
            /\ req[p].exec_calls # <<>> =>
                  /\ req[p].advisory_calls # <<>>
                  /\ req[p].consultant_response # NoText
                  /\ req[p].execution_plan # None
                  /\ req[p].execution_plan =
                        extract_execution_plan(req[p].consultant_response)

C10_Witness ==
    \E p \in Procs :
        /\ pc[p] = "executing"
        /\ req[p].kind = "process"
        /\ Len(req[p].exec_calls) = 1
        /\ req[p].execution_plan = extract_execution_plan(req[p].consultant_response)

\* C11: the execution_history of a context never loses, replaces or reorders
\* a record: a step leaves it as it was or puts exactly one record after
\* the ones it had, and that record is the one of the request that completes
\* its execution phase in that very step.
C11_HistoryAppendOnly ==
    [][\A c \in (DOMAIN contexts) \cap (DOMAIN contexts') :
         \/ contexts'[c].execution_history = History(c)
         \/ \E p \in Procs :
              /\ pc[p] = "executing"
              /\ pc'[p] = "done"
              /\ req[p].context = c
              /\ Len(contexts'[c].execution_history) = Len(History(c)) + 1
              /\ SubSeq(contexts'[c].execution_history, 1, Len(History(c))) = History(c)
              /\ Last(contexts'[c].execution_history) =
                    ExecutionRecord(req[p].user_input, req[p].consultant_response,
                                    req[p].execution_plan, ret'[p].result)]_vars

\* two requests of one session have both completed; the record of the one
\* that sent "u2" came first
C11_Witness ==
    \E c \in DOMAIN contexts :
        /\ Len(History(c)) = 2
        /\ History(c)[1].user_input = "u2"
        /\ History(c)[2].user_input = "u1"

\* C12: every request whose role calls return or fail comes to its end (a
\* streaming request unless its consumer abandons it); a request that has
\* returned changes nothing any more, and a new request starts with no
\* advisory response, plan or execution of its own, in the advisory phase
\* unless it is rejected on entry.
C12_RequestsTerminate ==
    /\ \A p \in Procs : InFlight(p) ~> (pc[p] \in {"done", "abandoned"})
    /\ [][\A p \in Procs :
            /\ pc[p] = "done" =>
                  /\ pc'[p] = "idle"
                  /\ conversations' = conversations
                  /\ \A c \in conversations : contexts'[c] = contexts[c]
            /\ (pc[p] = "idle" /\ pc'[p] # "idle" /\ IsRequest(req'[p])) =>
                  /\ req'[p].consultant_response = NoText
                  /\ req'[p].execution_plan = None
                  /\ req'[p].exec_calls = <<>>
                  /\ \/ pc'[p] = "advising" /\ Len(req'[p].advisory_calls) = 1
                     \/ /\ pc'[p] = "done"
                        /\ req'[p].advisory_calls = <<>>
                        /\ Admit(is_initialized, conversations, req'[p].session_arg)
                              \in {"not_initialized", "not_found"}]_vars

\* a second request on a session is in its advisory phase after a first one
\* ran to the end of its execution phase
C12_Witness ==
    \E p \in Procs :
        /\ pc[p] = "advising"
        /\ issued = 2
        /\ History(req[p].context) # <<>>

\* C13: the thread ids of every live context are the ones derived from its
\* session id, every role call carries the thread id of the session it was
\* made for, no two contexts share a thread id, and no advisory thread id
\* equals an execution thread id.
C13_ThreadIdsDerived ==
    /\ \A c \in DOMAIN contexts :
          /\ contexts[c].session_id = c
          /\ contexts[c].consultant_thread_id = <<"consultant", contexts[c].session_id>>
          /\ contexts[c].executor_thread_id = <<"executor", contexts[c].session_id>>
    /\ \A c, d \in DOMAIN contexts :
          /\ contexts[c].consultant_thread_id # contexts[d].executor_thread_id
          /\ c # d =>
                /\ contexts[c].consultant_thread_id # contexts[d].consultant_thread_id
                /\ contexts[c].executor_thread_id # contexts[d].executor_thread_id
    /\ \A p \in Procs :
          InFlight(p) =>
             /\ \A i \in DOMAIN req[p].advisory_calls :
                   req[p].advisory_calls[i].thread =
                      contexts[req[p].context].consultant_thread_id
             /\ \A i \in DOMAIN req[p].exec_calls :
                   req[p].exec_calls[i].thread =
                      contexts[req[p].context].executor_thread_id

\* two sessions are live and the execution role is running for one of them
C13_Witness ==
    /\ Cardinality(DOMAIN contexts) = 2
    /\ \E p \in Procs :
          /\ pc[p] = "executing"
          /\ Len(req[p].exec_calls) = 1
          /\ Len(req[p].advisory_calls) = 1

\* C14: a step that adds to the store adds one id that no live context
\* carried; the context stored under it has no plan, an empty history held
\* in a list no other context holds; every context that existed is
\* unchanged; and the request that made the session (session_id=None) goes
\* on with the id create_conversation returned, on that context.
C14_CreateAddsOneFreshSession ==
    [][(conversations' # conversations /\ conversations \subseteq conversations') =>
          \E n \in conversations' :
              /\ conversations' = conversations \cup {n}
              /\ n \notin conversations
              /\ n \notin DOMAIN contexts
              /\ contexts'[n].session_id = n
              /\ contexts'[n].current_plan = None
              /\ contexts'[n].execution_history = <<>>
              /\ \A d \in DOMAIN contexts :
                    /\ contexts'[d] = contexts[d]
                    /\ contexts'[d].history_list # contexts'[n].history_list
              /\ \A p \in Procs :
                    pc'[p] # pc[p] =>
                       /\ req'[p].session_arg = NoId
                       /\ req'[p].session_id = n
                       /\ req'[p].context = n]_vars

\* a second session was created after the first had a record and a plan
C14_Witness ==
    \E c, n \in conversations :
        /\ c # n
        /\ History(c) # <<>>
        /\ contexts[c].current_plan # None
        /\ History(n) = <<>>
        /\ contexts[n].current_plan = None

\* C15: no step removes a session from the store except close(), which
\* empties it and leaves the engine uninitialized; and
\* list_active_conversations returns the ids in the store.
C15_SessionsPersist ==
    [][/\ \/ conversations \subseteq conversations'
          \/ conversations' = {} /\ ~is_initialized'
       /\ \A p \in Procs :
             (pc'[p] = "done" /\ req'[p].kind = "list") => ret'[p].ids = conversations']_vars

\* after two completed requests, the list still names both sessions
C15_Witness ==
    \E p \in Procs :
        /\ pc[p] = "done"
        /\ req[p].kind = "list"
        /\ Cardinality(ret[p].ids) = 2
        /\ issued = 2
        /\ \E c \in conversations : History(c) # <<>>

\* C16: get_conversation_summary of a session in the store reports the
\* number of records appended to it so far, whether a plan is stored now,
\* and the record appended last (None when none was).
C16_SummaryReadsWrites ==
    \A p \in Procs :
        (pc[p] = "done" /\ req[p].kind = "summary" /\ req[p].session_arg \in conversations) =>
            /\ ret[p].form = "summary"
            /\ ret[p].session_id = req[p].session_arg
            /\ ret[p].total_executions = appended[req[p].session_arg].n
            /\ ret[p].current_plan = (contexts[req[p].session_arg].current_plan # None)
            /\ ret[p].last_execution = appended[req[p].session_arg].last

\* the summary after two executed requests, the second sent "u2"
C16_Witness ==
    \E p \in Procs :
        /\ pc[p] = "done"
        /\ req[p].kind = "summary"
        /\ ret[p].form = "summary"
        /\ ret[p].total_executions = 2
        /\ ret[p].current_plan
        /\ ret[p].last_execution.user_input = "u2"
        /\ History(req[p].context)[1].user_input = "u1"

\* C17: the fragments an admitted streaming request has delivered are, in
\* this order, the analyzing marker, the whole advisory text and, when a plan
\* was extracted from it, the running-plan marker and the fragments of the
\* execution role's stream as the role produced them; with no plan nothing
\* follows the advisory text.  (When the advisory call raises, the error
\* fragment of the boundary follows the marker and ends the stream.)
ExpectedFragments(r) ==
    <<AnalyzingFragment, AnalysisFragment(r.consultant_response)>>
      \o (IF r.execution_plan # None
          THEN <<RunningPlanFragment(r.execution_plan)>> \o r.role_out
          ELSE <<>>)

C17_StreamOrder ==
    \A p \in Procs :
        (req[p].kind = "stream" /\ req[p].advisory_calls # <<>>) =>
            IF req[p].consultant_response = NoText
            THEN \/ req[p].out = <<AnalyzingFragment>>
                 \/ /\ pc[p] = "done"
                    /\ \E e \in Errors : req[p].out = <<AnalyzingFragment, ErrorFragment(e)>>
            ELSE /\ req[p].out = ExpectedFragments(req[p])
                 /\ req[p].execution_plan = extract_execution_plan(req[p].consultant_response)
                 /\ req[p].execution_plan = None => req[p].role_out = <<>>

\* a stream that delivered a tool fragment and then the role's error fragment
C17_Witness ==
    \E p \in Procs :
        /\ pc[p] = "done"
        /\ req[p].kind = "stream"
        /\ Len(req[p].role_out) = 2
        /\ req[p].role_out[1] = ToolFragment
        /\ Len(req[p].out) = 5

\* C18: when the consumer has abandoned a streaming request, the history of
\* the request's session is what it was when the request began.
C18_AbandonWritesNothing ==
    \A p \in Procs :
        pc[p] = "abandoned" =>
            History(req[p].context) = req[p].history_at_start

\* abandoned after the running-plan marker and one fragment of the role, on
\* a session that already had a record
C18_Witness ==
    \E p \in Procs :
        /\ pc[p] = "abandoned"
        /\ Len(req[p].role_out) = 1
        /\ History(req[p].context) # <<>>

Range(seq) == {seq[i] : i \in DOMAIN seq}
Attempted(i) == connecting.attempted[i]

\* C19: once connect_to_servers has returned, every server of the
\* configuration has been attempted, in order, whatever the earlier ones
\* did; get_all_tools holds a handle for every usable tool of every server
\* that connected and listed its tools, and get_tools_info has no entry for
\* a server whose connection failed.
C19_ConnectDegradesGracefully ==
    mcp_client # None =>
        /\ connecting.pending = <<>> =>
              [i \in DOMAIN connecting.attempted |-> Attempted(i).server_name]
                 = connecting.servers_config
        /\ \A i \in DOMAIN connecting.attempted :
              IF Attempted(i).o.kind = "ok"
              THEN \A j \in DOMAIN Attempted(i).o.tools :
                      Attempted(i).o.tools[j].usable =>
                          MCPTool(Attempted(i).o.tools[j], Attempted(i).server_name)
                             \in Range(get_all_tools(mcp_client))
              ELSE Attempted(i).server_name \notin DOMAIN get_tools_info(mcp_client)

\* Scenario A: of two servers the first fails, the second lists a tool
C19_Witness ==
    /\ mcp_client # None
    /\ connecting.pc = "idle"
    /\ Len(connecting.attempted) = 2
    /\ Attempted(1).o.kind # "ok"
    /\ Attempted(2).o.kind = "ok"
    /\ get_all_tools(mcp_client) # <<>>
    /\ DOMAIN get_tools_info(mcp_client) = {Attempted(2).server_name}

\* the attempts that produced a handle named nm
Registered(nm) ==
    {i \in DOMAIN connecting.attempted :
        MCPTool(ToolInfo(nm, Attempted(i).server_name, TRUE), Attempted(i).server_name)
           \in Range(server_tools(Attempted(i).o.tools, Attempted(i).server_name))}

\* C20: every handle kept under a server is also in the list of all
\* handles, so two servers exposing one name both keep theirs; and the
\* agent built on that list looks a name up to the handle of the server
\* registered last among those exposing it (to nothing when none does).
C20_LastRegisteredWins ==
    /\ mcp_client # None =>
          \A s \in DOMAIN mcp_client.tools :
              /\ \A i \in DOMAIN mcp_client.tools[s] :
                    /\ mcp_client.tools[s][i] \in Range(get_all_tools(mcp_client))
                    /\ mcp_client.tools[s][i].server_name = s
              /\ \E i \in DOMAIN connecting.attempted :
                    /\ Attempted(i).server_name = s
                    /\ mcp_client.tools[s] = server_tools(Attempted(i).o.tools, s)
    /\ (executor_agent # None /\ mcp_client # None /\ connecting.pc = "idle"
          /\ executor_agent.mcp_tools = get_all_tools(mcp_client)) =>
          \A nm \in ToolNames :
              IF Registered(nm) = {}
              THEN get_tool_info(executor_agent, nm) = None
              ELSE LET last == CHOOSE i \in Registered(nm) : \A j \in Registered(nm) : j <= i
                   IN  /\ executor_agent.tools_map[nm].server_name = Attempted(last).server_name
                       /\ get_tool_info(executor_agent, nm) =
                             [name |-> nm, description |-> Attempted(last).server_name]

\* both servers expose "ls"; the lookup gives the handle of the second
C20_Witness ==
    /\ executor_agent # None
    /\ mcp_client # None
    /\ connecting.pc = "idle"
    /\ executor_agent.mcp_tools = get_all_tools(mcp_client)
    /\ Registered("ls") = {1, 2}
    /\ Len(get_all_tools(mcp_client)) >= 2
    /\ executor_agent.tools_map["ls"].server_name = Attempted(2).server_name

(***************************************************************************)
(* Tool invocation and close().                                            *)
(***************************************************************************)
FailedInvocations == {i \in DOMAIN bridge.calls :
                         bridge.calls[i].pc = "returned" /\ bridge.calls[i].o.kind = "raise"}

\* C21: a tool invocation whose call fails returns an error value that
\* carries both the tool's name and the cause of the failure.
C21_ErrorCarriesNameAndCause ==
    \A i \in FailedInvocations :
        LET c == bridge.calls[i] IN
        /\ c.value.kind = "str"
        /\ c.tool.name \in Range(c.value.parts)
        /\ c.o.e \in Range(c.value.parts)

\* What does hold for a failed invocation: it returns a string that carries
\* the cause, and the other invocations of the client are as they were.
C21_ErrorCarriesCause ==
    \A i \in FailedInvocations :
        LET c == bridge.calls[i] IN
        /\ c.value.kind = "str"
        /\ c.o.e \in Range(c.value.parts)

C21_OthersUntouched ==
    [][\A i \in DOMAIN bridge.calls :
          (\E j \in DOMAIN bridge.calls :
              j # i /\ bridge.calls[j].pc = "awaiting" /\ bridge'.calls[j].pc = "returned")
          => bridge'.calls[i] = bridge.calls[i]]_vars

\* the connections released, the session list, the initialized flag
Observable ==
    [released |-> IF mcp_client = None THEN TRUE ELSE mcp_client.closed,
     sessions |-> conversations,
     initialized |-> is_initialized]

\* C22: a close() made right after a close() leaves the observable state
\* (connections released, session list, initialized flag) as the first
\* close() left it.
C22_CloseIdempotent ==
    [][(Close /\ bridge.closes >= 1) => Observable' = Observable]_vars

C22_Witness ==
    /\ bridge.closes >= 2
    /\ mcp_client # None
    /\ mcp_client.closed
    /\ mcp_client.sessions # {}
    /\ bridge.calls # <<>>

(***************************************************************************)
(* Argument expansion.                                                     *)
(***************************************************************************)
Applied(f) == applied.f = f /\ applied.done

\* an argument of the exact form ${VAR}
IsPlaceholder(a) == a.isStr /\ a.head = "${" /\ a.tail = "}"

\* C23: an argument ${VAR} is replaced by the environment value of VAR, or
\* passed as it is when VAR is not set; every other argument is passed
\* unchanged; the number and the order of the arguments are kept.
C23_ArgsExpanded ==
    Applied("expanded_args") =>
        LET args == applied.arg.args
            environ == applied.arg.environ
            out == applied.result
        IN  /\ Len(out) = Len(args)
            /\ \A i \in DOMAIN args :
                 IF IsPlaceholder(args[i]) /\ args[i].body \in DOMAIN environ
                 THEN out[i] = Plain(environ[args[i].body])
                 ELSE out[i] = args[i]

C23_Witness ==
    /\ Applied("expanded_args")
    /\ Len(applied.arg.args) = 3
    /\ IsPlaceholder(applied.arg.args[1])
    /\ applied.arg.args[1].body \in DOMAIN applied.arg.environ
    /\ applied.result[1] = Plain("v")
    /\ IsPlaceholder(applied.arg.args[2])
    /\ applied.arg.args[2].body \in EnvNames \ DOMAIN applied.arg.environ
    /\ applied.result[2] = applied.arg.args[2]
    /\ applied.arg.args[3] = Str("x${", "HOME", "}")

(***************************************************************************)
(* Plan extraction.                                                        *)
(***************************************************************************)
HasOpener(t) == \E i \in DOMAIN t : StartsWithJsonFence(t[i])

\* the first line whose trimmed content starts with the json fence marker
FirstOpener(t) ==
    CHOOSE i \in DOMAIN t :
        StartsWithJsonFence(t[i]) /\ \A j \in 1..(i - 1) : ~StartsWithJsonFence(t[j])

\* the lines after line i whose trimmed content is the closing fence marker
ClosersAfter(t, i) == {j \in DOMAIN t : j > i /\ IsClosingFence(t[j])}

FirstCloser(t, i) == CHOOSE j \in ClosersAfter(t, i) : \A k \in ClosersAfter(t, i) : j <= k

\* the lines strictly between the first opener and the first later closer
Between(t) == SubSeq(t, FirstOpener(t) + 1, FirstCloser(t, FirstOpener(t)) - 1)

\* the TaskPlan of a decoded object, blank where a field is absent
PlanOfObject(members) ==
    TaskPlan(IF "task_description" \in DOMAIN members
                THEN members["task_description"] ELSE StrV(""),
             IF "required_tools" \in DOMAIN members
                THEN members["required_tools"] ELSE ListV(<<>>),
             IF "execution_steps" \in DOMAIN members
                THEN members["execution_steps"] ELSE ListV(<<>>),
             IF "expected_outcome" \in DOMAIN members
                THEN members["expected_outcome"] ELSE StrV(""))

DecodesToObject(ls) == ls # <<>> /\ "t" \in DOMAIN json_loads(ls) /\ json_loads(ls).t = "obj"

\* what decoding the lines ls gives: the plan of the object, or none
PlanOfLines(ls) ==
    IF DecodesToObject(ls) THEN PlanOfObject(json_loads(ls).members) ELSE None

IsTaskPlan(r) == DOMAIN r = PlanFields

\* C24: extract_execution_plan never raises; it returns none when the text
\* has no json fence opener, when the fenced interior is empty, when the
\* interior does not decode, and when it decodes to something that is no
\* object.
C24_ExtractNeverRaises ==
    Applied("extract_execution_plan") =>
        LET t == applied.arg
            interior == ScanLines(t, FALSE, <<>>)
        IN  /\ applied.result = None \/ IsTaskPlan(applied.result)
            /\ ~HasOpener(t) => applied.result = None
            /\ interior = <<>> => applied.result = None
            /\ ~DecodesToObject(interior) => applied.result = None

C24_Witness ==
    /\ Applied("extract_execution_plan")
    /\ applied.arg = <<Prose, Padded(Opener), Json(ListJ), Padded(Closer)>>
    /\ applied.result = None

\* C25 (as stated): for every text that contains a well-formed fenced block
\* decoding to an object, the result is a TaskPlan with the fields of such a
\* block, blank where a field is absent.
WellFormedBlocks(t) ==
    {b \in (DOMAIN t) \X (DOMAIN t) :
        /\ b[1] < b[2]
        /\ StartsWithJsonFence(t[b[1]])
        /\ IsClosingFence(t[b[2]])
        /\ DecodesToObject(SubSeq(t, b[1] + 1, b[2] - 1))}

C26_DecodesLinesBetween ==
    Applied("extract_execution_plan") =>
        LET t == applied.arg IN
        (HasOpener(t) /\ ClosersAfter(t, FirstOpener(t)) # {})
        => applied.result = PlanOfLines(Between(t))

\* C27: a text with a json fence opener and no closing fence line after it
\* gives none.
C27_UnclosedReturnsNone ==
    Applied("extract_execution_plan") =>
        LET t == applied.arg IN
        (HasOpener(t) /\ ClosersAfter(t, FirstOpener(t)) = {})
        => applied.result = None

(***************************************************************************)
(* The argument contract of a tool.                                        *)
(***************************************************************************)
IsContract(r) == r.raised = ""

\* C28: for every parameter schema the built contract lists the parameters
\* in declaration order, marks a parameter required exactly when its name is
\* in the required set, and gives every other parameter a none default.
C28_ContractKeepsOrderAndRequired ==
    Applied("create_model") =>
        LET props == applied.arg.properties
            out == applied.result.fields
        IN  /\ IsContract(applied.result)
            /\ Len(out) = Len(props)
            /\ \A i \in DOMAIN props :
                 /\ out[i].name = props[i].name
                 /\ out[i].default = Ellipsis <=> props[i].name \in applied.arg.required
                 /\ out[i].default # Ellipsis => out[i].default = NoDefault

\* What holds of C28: every contract that is built has that order and those
\* marks.
C28_BuiltContractKeepsOrder ==
    (Applied("create_model") /\ IsContract(applied.result)) =>
        LET props == applied.arg.properties
            out == applied.result.fields
        IN  /\ Len(out) = Len(props)
            /\ \A i \in DOMAIN props :
                 /\ out[i].name = props[i].name
                 /\ out[i].default = Ellipsis <=> props[i].name \in applied.arg.required
                 /\ out[i].default # Ellipsis => out[i].default = NoDefault

\* C29: each declared kind is mapped to its semantic kind (string, integer,
\* number to float, boolean, object, array), and a missing or unknown kind
\* to string.
SemanticKind(k) ==
    CASE k = "string" -> "str"
      [] k = "integer" -> "int"
      [] k = "number" -> "float"
      [] k = "boolean" -> "bool"
      [] k = "object" -> "dict"
      [] k = "array" -> "list"
      [] OTHER -> "str"

C29_KindsMapped ==
    Applied("create_model") =>
        /\ IsContract(applied.result)
        /\ \A i \in DOMAIN applied.arg.properties :
             applied.result.fields[i].py_type = SemanticKind(applied.arg.properties[i].type)

\* What holds of C29: the kinds of every contract that is built.
C29_BuiltKindsMapped ==
    (Applied("create_model") /\ IsContract(applied.result)) =>
        \A i \in DOMAIN applied.arg.properties :
             applied.result.fields[i].py_type = SemanticKind(applied.arg.properties[i].type)

(***************************************************************************)
(* The execution prompt.                                                   *)
(***************************************************************************)
\* C30: the execution prompt built for a plan has one numbered entry per
\* execution step, in the order of the steps, each showing the step's
\* description, or its action name when the step has no description.
C30_PromptListsSteps ==
    (Applied("execution_prompt") /\ "steps" \in DOMAIN applied.result) =>
        LET items == applied.arg.execution_steps.items
            entries == applied.result.steps
        IN  /\ Len(entries) = Len(items)
            /\ \A i \in DOMAIN items :
                 /\ entries[i].n = i
                 /\ items[i].description # Absent
                       => entries[i].text = items[i].description
                 /\ (items[i].description = Absent /\ items[i].action # Absent)
                       => entries[i].text = items[i].action

C30_Witness ==
    /\ Applied("execution_prompt")
    /\ applied.arg.execution_steps.items =
          <<ObjItem("d1", "a1"), ObjItem(Absent, "a1"), ObjItem("", "a1")>>
    /\ applied.result.steps =
          <<[n |-> 1, text |-> "d1"], [n |-> 2, text |-> "a1"], [n |-> 3, text |-> ""]>>

(***************************************************************************)
(* What a request leaves in its session.                                   *)
(***************************************************************************)
\* a step of the streaming request of p after its admission
StreamStep(p) ==
    /\ req[p].kind = "stream"
    /\ pc[p] \in {"advising", "streaming"}
    /\ pc'[p] \in {"streaming", "done"}
    /\ (pc'[p] # pc[p] \/ req'[p] # req[p])

\* C31: a stream_execution request that extracts a plan runs the execution
\* role's stream with the session's execution thread id, and no step of it
\* changes the plan or the history of any context.
C31_StreamLeavesStateUnchanged ==
    [][\A p \in Procs :
         StreamStep(p) =>
            /\ contexts' = contexts
            /\ req'[p].execution_plan # None =>
                  req'[p].exec_calls =
                     <<[thread |-> <<"executor", req[p].session_id>>,
                        prompt |-> StreamPrompt(req'[p].execution_plan)]>>]_vars

\* a stream that extracted a plan and ran the role's stream to its end, on a
\* session that still has no plan and no record
C31_Witness ==
    \E p \in Procs :
        /\ pc[p] = "done"
        /\ req[p].kind = "stream"
        /\ req[p].execution_plan # None
        /\ req[p].role_out # <<>>
        /\ req[p].context \in conversations
        /\ contexts[req[p].context].current_plan = None
        /\ History(req[p].context) = <<>>

\* the step of p that stores the plan it extracted in context c
StoresExtractedPlan(p, c) ==
    /\ req[p].kind = "process"
    /\ req[p].context = c
    /\ Advised(p)
    /\ req'[p].execution_plan # None
    /\ contexts'[c].current_plan = req'[p].execution_plan

\* the step of p in which execute_current_plan returns its executed message
\* and has cleared the plan of context c
ClearsExecutedPlan(p, c) ==
    /\ req[p].kind = "execute_plan"
    /\ req[p].context = c
    /\ Returns(p)
    /\ ret'[p].form = "plan_executed"
    /\ contexts'[c].current_plan = None

\* C32: current_plan of a context changes only in a step of a request that
\* stores the plan it extracted or in the step in which execute_current_plan
\* returns as executed; a request whose advisory response has no plan leaves
\* every context as it was; when a request that auto-executed its plan
\* returns, that plan is the session's current_plan.
C32_PlanChangesOnlyByPlanSteps ==
    [][/\ \A c \in (DOMAIN contexts) \cap (DOMAIN contexts') :
             contexts'[c].current_plan # contexts[c].current_plan =>
                \E p \in Procs : StoresExtractedPlan(p, c) \/ ClearsExecutedPlan(p, c)
       /\ \A p \in Procs :
             (req[p].kind = "process" /\ Advised(p) /\ req'[p].execution_plan = None)
                => contexts' = contexts
       /\ \A p \in Procs :
             (req[p].kind = "process" /\ Returns(p) /\ ret'[p].form = "final")
                => contexts'[req[p].context].current_plan = req[p].execution_plan]_vars

\* a request whose advisory response had no plan has returned on a session
\* that holds a plan stored by an earlier request
C32_Witness ==
    \E p \in Procs :
        /\ pc[p] = "done"
        /\ req[p].kind = "process"
        /\ ret[p].form = "verbatim"
        /\ req[p].consultant_response = NoPlanText
        /\ req[p].context \in conversations
        /\ contexts[req[p].context].current_plan # None

\* an execute_current_plan call of p that found a stored plan has returned
ExecutedStoredPlan(p) ==
    /\ pc[p] = "done"
    /\ req[p].kind = "execute_plan"
    /\ req[p].execution_plan # None

\* C33: execute_current_plan on a session with a stored plan invokes the
\* execution role once with the session's execution thread id and leaves
\* current_plan cleared, so that a second call finds no plan.
C33_ExecutePlanRunsOnceAndClears ==
    \A p \in Procs :
        ExecutedStoredPlan(p) =>
            /\ Len(req[p].exec_calls) = 1
            /\ req[p].exec_calls[1].thread = <<"executor", req[p].session_id>>
            /\ contexts[req[p].context].current_plan = None

\* What holds of C33: an execute_current_plan call that returns from the role
\* (the steps of the stored plan were objects) invoked it once with the
\* session's execution thread id and the stored plan's prompt, clears the plan
\* and leaves the history as it was.
C33_WellTypedPlanRunsOnceAndClears ==
    [][\A p \in Procs :
         (req[p].kind = "execute_plan" /\ Returns(p)) =>
            /\ req[p].exec_calls =
                  <<[thread |-> <<"executor", req[p].session_id>>,
                     prompt |-> ExecutionPrompt(req[p].execution_plan)]>>
            /\ contexts'[req[p].context].current_plan = None
            /\ contexts'[req[p].context].execution_history = History(req[p].context)
            /\ ret'[p].form = "plan_executed"]_vars

\* p calls execute_current_plan with an id that is unknown or whose session
\* stores no plan
ExecutePlanWithoutPlan(p) ==
    /\ pc[p] = "idle"
    /\ pc'[p] # "idle"
    /\ req'[p].kind = "execute_plan"
    /\ \/ req'[p].session_arg \notin conversations
       \/ contexts[req'[p].session_arg].current_plan = None

\* C34: execute_current_plan on an unknown session id or on a session with no
\* stored plan returns the no-plan-available message, invokes no role and
\* changes no session's state.
C34_NoPlanNoEffect ==
    [][\A p \in Procs :
         ExecutePlanWithoutPlan(p) =>
            /\ pc'[p] = "done"
            /\ ret'[p] = NoPlanAvailable
            /\ req'[p].exec_calls = <<>>
            /\ req'[p].advisory_calls = <<>>
            /\ contexts' = contexts
            /\ conversations' = conversations]_vars

C34_Witness ==
    \E p \in Procs :
        /\ pc[p] = "done"
        /\ req[p].kind = "execute_plan"
        /\ ret[p] = NoPlanAvailable
        /\ req[p].session_arg \in conversations
        /\ contexts[req[p].session_arg].current_plan = None
        /\ \E c \in conversations : contexts[c].current_plan # None

C34_WitnessUnknownId ==
    \E p \in Procs :
        /\ pc[p] = "done"
        /\ req[p].kind = "execute_plan"
        /\ ret[p] = NoPlanAvailable
        /\ req[p].session_arg \notin conversations
        /\ \E c \in conversations : contexts[c].current_plan # None

\* p calls process_user_request or stream_execution while the engine is not
\* initialized
CallsUninitialized(p) ==
    /\ pc[p] = "idle"
    /\ pc'[p] # "idle"
    /\ req'[p].kind \in {"process", "stream"}
    /\ ~is_initialized

\* C35: while the engine is not initialized, process_user_request and
\* stream_execution hand back the not-initialized message at once, without
\* creating a session, invoking a role or changing any state; close() leaves
\* the session list empty.
C35_UninitializedRejects ==
    [][/\ \A p \in Procs :
            CallsUninitialized(p) =>
               /\ pc'[p] = "done"
               /\ req'[p].kind = "process" => ret'[p] = NotInitialized
               /\ req'[p].kind = "stream" => req'[p].out = <<NotInitializedFragment>>
               /\ req'[p].advisory_calls = <<>>
               /\ req'[p].exec_calls = <<>>
               /\ conversations' = conversations
               /\ contexts' = contexts
               /\ is_initialized' = is_initialized
               /\ regVars' = regVars
       /\ Close => list_active_conversations(conversations').ids = {}]_vars

C35_Witness ==
    \E p \in Procs :
        /\ pc[p] = "done"
        /\ req[p].kind = "process"
        /\ req[p].session_arg = NoId
        /\ ret[p] = NotInitialized
        /\ ~is_initialized
        /\ mcp_client # None
        /\ mcp_client.closed
        /\ list_active_conversations(conversations).ids = {}

C35_WitnessStream ==
    \E p \in Procs :
        /\ pc[p] = "done"
        /\ req[p].kind = "stream"
        /\ req[p].session_arg = NoId
        /\ req[p].out = <<NotInitializedFragment>>
        /\ ~is_initialized
        /\ conversations = {}

\* the record of the request p has made: its own input, advisory response and
\* plan, and the result it returns
RecordOf(p) ==
    ExecutionRecord(req[p].user_input, req[p].consultant_response,
                    req[p].execution_plan, ret[p].result)

\* p's process_user_request comes back from the execution role
Executed(p) ==
    /\ req[p].kind = "process"
    /\ pc[p] = "executing"
    /\ pc'[p] = "done"

\* C36: with two process_user_request calls in flight, every record appended
\* is made of one request's own input, advisory response, plan and result; a
\* request that executed appends exactly one record, at the end of the
\* history, and nothing else adds or removes a record.
C36_RecordsAreOwn ==
    [][/\ \A p \in Procs :
            Executed(p) =>
               /\ History(req[p].context)' = Append(History(req[p].context), RecordOf(p)')
               /\ RecordOf(p)'.user_input = InputOf[p]
               /\ RecordOf(p)'.execution_plan =
                     extract_execution_plan(RecordOf(p)'.consultant_response)
               /\ req[p].exec_calls =
                     <<[thread |-> <<"executor", req[p].session_id>>,
                        prompt |-> ExecutionPrompt(RecordOf(p)'.execution_plan)]>>
               /\ \A q \in Procs \ {p} : req'[q] = req[q] /\ pc'[q] = pc[q]
       /\ \A c \in DOMAIN contexts \cap DOMAIN contexts' :
            History(c)' # History(c) =>
               \E p \in Procs : Executed(p) /\ req[p].context = c]_vars

\* a request has appended its record after the other request, in flight on
\* the same session at the same time, had stored another plan
C36_Witness ==
    \E p \in Procs :
        /\ pc[p] = "done" /\ ret[p].form = "final"
        /\ contexts[req[p].context].current_plan # req[p].execution_plan
        /\ contexts[req[p].context].current_plan # None
        /\ Last(History(req[p].context)) = RecordOf(p)

\* both callers' records are in the history, the later caller's first
C36_WitnessOrder ==
    /\ pc["p1"] = "done" /\ ret["p1"].form = "final"
    /\ Len(History(req["p1"].context)) = 2
    /\ History(req["p1"].context)[1].user_input = InputOf["p2"]
    /\ History(req["p1"].context)[2] = RecordOf("p1")

\* a step of the request p, which was suspended in a role call
ResumedStep(p) ==
    /\ InFlight(p)
    /\ (pc'[p] # pc[p] \/ req'[p] # req[p])

\* the session of p is not in the store: close() ran while p was suspended
ClosedUnder(p) == req[p].context \notin conversations

\* C37: a request that resumes after close() ran during its role call never
\* puts its session back in the store; whatever it appended, the session list
\* does not name its session and the summary of its session is the error.
C37_ClosedSessionStaysOut ==
    [][\A p \in Procs :
         ResumedStep(p) =>
            /\ conversations' = conversations
            /\ ClosedUnder(p) =>
                 /\ req[p].session_id \notin list_active_conversations(conversations').ids
                 /\ get_conversation_summary(conversations', contexts',
                                             req[p].session_id).form = "summary_error"]_vars

C37_Witness ==
    \E p \in Procs :
        /\ pc[p] = "done"
        /\ req[p].kind = "process"
        /\ ret[p].form = "final"
        /\ Last(History(req[p].context)) = RecordOf(p)
        /\ ~is_initialized
        /\ list_active_conversations(conversations).ids = {}
        /\ get_conversation_summary(conversations, contexts,
                                    req[p].session_id).form = "summary_error"

\* the node of the graph that runs next, and the latest message of the run
Node == applied.result.node
LatestMessage == Last(applied.result.messages)
CarriesToolCalls(m) == m.type = "ai" /\ Len(m.tool_calls) > 0

\* C38: in the execution role's graph the executor node is followed by the
\* tools node exactly when its latest message carries tool calls and by the
\* end state otherwise; the tools node is always followed by the executor
\* node; the end state is entered only from an executor step whose message
\* carries no tool call.
C38_GraphRouting ==
    [][/\ (Node = "executor" /\ Node' # "aborted") =>
             /\ Node' \in {"tools", "__end__"}
             /\ Node' = "tools" <=> CarriesToolCalls(LatestMessage')
             /\ Node' = "__end__" <=> ~CarriesToolCalls(LatestMessage')
       /\ (Node = "tools" /\ Node' # "aborted") => Node' = "executor"
       /\ Node' = "__end__" =>
             /\ Node = "executor"
             /\ LatestMessage'.type = "ai"
             /\ ~CarriesToolCalls(LatestMessage')
             /\ applied'.result.messages = Append(applied.result.messages, LatestMessage')]_vars

\* a run that went executor, tools, executor and then ended
C38_Witness ==
    /\ applied.f = "graph"
    /\ Node = "__end__"
    /\ applied.result.steps = 3
    /\ \E i \in DOMAIN applied.result.messages :
         /\ CarriesToolCalls(applied.result.messages[i])
         /\ applied.result.messages[i + 1].type = "tool"
    /\ ~CarriesToolCalls(LatestMessage)

====
